---------------------------- MODULE Spec2Model ----------------------------
(***************************************************************************)
(* FlavorGraph: the recipe-suggestion engine (ingredient graph, greedy     *)
(* candidate filter, graph enrichment, backtracking combination optimizer) *)
(* as a state machine.  The Python backend itself is not among the source  *)
(* files; its documented algorithms (ALGORITHM_DOCUMENTATION, held in      *)
(* src/unnamed/part_002) are transcribed where they are written out, and   *)
(* the parts they leave out are taken from the specification.              *)
(*                                                                         *)
(* Numbers: edge weights are tenths (0..10 for 0.0..1.0), substitution     *)
(* scores are hundredths, every other fraction is an exact rational        *)
(* [n |-> numerator, d |-> denominator].                                   *)
(***************************************************************************)
EXTENDS Integers, Sequences, FiniteSets, TLC

VARIABLES
    \* ---- suggestion pipeline (one request at a time) ----
    graph,        \* the IngredientGraph: a set of weighted, typed edges
    corpus,       \* the recipes loaded from storage (set of Recipe records)
    request,      \* the SuggestionRequest being served
    pc,           \* position of the pipeline
    scored,       \* recipe id -> [match_ratio, missing_count, score]
    eligible,     \* ids that passed the hard filters
    candidates,   \* CandidateFilter's output: sequence of recipe ids
    enriched,     \* recipe id -> [match_score, missing_ingredients, substitution_suggestions]
    response,     \* the response list: sequence of ScoredRecipe records
    \* ---- combination optimizer (backtracking) ----
    bt,           \* the optimizer's input and search state
    \* ---- graph queries ----
    query,        \* the last graph query and its answer
    \* ---- web application ----
    nav,          \* the browser's session and the request the middleware serves
    dash,         \* the dashboard page: its React state and its pending fetches
    \* ---- concurrent suggestion requests ----
    conc          \* the requests being served at once and their working state

pipeVars == <<corpus, request, pc, scored, eligible, candidates, enriched, response>>
vars == <<graph, corpus, request, pc, scored, eligible, candidates, enriched, response, bt, query,
          nav, dash, conc>>

---------------------------------------------------------------------------
(* Bounds of the model *)

\* largest number of raw names in a request's available_ingredients
MaxAvail == 4
\* largest max_recipes a request asks for
MaxRecipes == 2
\* largest corpus (number of recipes held by storage)
MaxCorpus == 3
\* largest limit passed to a substitutions query
MaxLimit == 2
\* the larger of the step budgets a search is given
MaxBudget == 4
\* the number of suggestion requests served at once
MaxWorkers == 2

---------------------------------------------------------------------------
(* Program constants *)

\* "Select top 50 candidates"
TopCandidates == 50
\* IngredientGraph.substitutions(ingredient, 5) during enrichment
EnrichLimit == 5
\* cuisine_bonus: "a fixed small positive constant (e.g. +5)"
CuisineBonus == 5
\* complementary edges: fixed 0.8 weight (tenths)
ComplementaryWeight == 8
\* category edges: fixed 0.5 weight (tenths)
CategoryWeight == 5
\* weights are tenths: 10 stands for 1.0
WeightOne == 10

---------------------------------------------------------------------------
(* Strings: a name is a sequence of characters *)

Range(s) == {s[i] : i \in 1..Len(s)}

Letters == <<"a","b","c","f","g","h","k","m","n","o","p","s","t","z">>
Capitals == <<"A","B","C","F","G","H","K","M","N","O","P","S","T","Z">>
Space == " "

Chars == Range(Letters) \cup Range(Capitals) \cup {Space}

\* str.lower() on one character: a capital maps to its small letter
LowerTable ==
    [c \in Chars |->
        IF \E i \in 1..Len(Capitals) : Capitals[i] = c
        THEN Letters[CHOOSE i \in 1..Len(Capitals) : Capitals[i] = c]
        ELSE c]

LowerChar(c) == LowerTable[c]

Lower(s) == [i \in 1..Len(s) |-> LowerChar(s[i])]

RECURSIVE LStrip(_)
LStrip(s) == IF s # <<>> /\ Head(s) = Space THEN LStrip(Tail(s)) ELSE s

RECURSIVE RStrip(_)
RStrip(s) ==
    IF s # <<>> /\ s[Len(s)] = Space THEN RStrip(SubSeq(s, 1, Len(s) - 1)) ELSE s

\* str.strip()
Trim(s) == RStrip(LStrip(s))

\* an ingredient is identified by its normalized name: lower-cased, trimmed
Normalize(s) == Lower(Trim(s))

\* a total order on characters and names (code point order), used for ties
CharCode(c) ==
    IF c = Space THEN 0
    ELSE IF \E i \in 1..Len(Capitals) : Capitals[i] = c
         THEN CHOOSE i \in 1..Len(Capitals) : Capitals[i] = c
         ELSE Len(Capitals) + (CHOOSE i \in 1..Len(Letters) : Letters[i] = c)

RECURSIVE NameLess(_, _)
NameLess(s, t) ==
    IF t = <<>> THEN FALSE
    ELSE IF s = <<>> THEN TRUE
    ELSE IF CharCode(Head(s)) # CharCode(Head(t))
         THEN CharCode(Head(s)) < CharCode(Head(t))
         ELSE NameLess(Tail(s), Tail(t))

\* the ingredient names of the model
chicken == <<"c","k">>
tofu == <<"t","f">>
tomato == <<"t","m">>
onion == <<"o","n">>
garlic == <<"g","a">>
garlic_powder == <<"g","p">>
shallot == <<"s","h">>
basil == <<"b","a">>
\* a name no graph holds
unknown == <<"z","z">>

---------------------------------------------------------------------------
(* Exact rationals *)

Q(n, d) == [n |-> n, d |-> d]
QZero == Q(0, 1)
QOne == Q(1, 1)
QLe(a, b) == a.n * b.d <= b.n * a.d
QLt(a, b) == a.n * b.d < b.n * a.d
QEq(a, b) == a.n * b.d = b.n * a.d
QAdd(a, b) == Q(a.n * b.d + b.n * a.d, a.d * b.d)
QSub(a, b) == Q(a.n * b.d - b.n * a.d, a.d * b.d)
QInt(k) == Q(k, 1)

Min(a, b) == IF a <= b THEN a ELSE b
Max(a, b) == IF a >= b THEN a ELSE b

RECURSIVE SumOver(_, _)
\* the sum of f[x] over the finite set S (f maps S to integers)
SumOver(f, S) ==
    IF S = {} THEN 0
    ELSE LET x == CHOOSE y \in S : TRUE IN f[x] + SumOver(f, S \ {x})

---------------------------------------------------------------------------
(* IngredientGraph *)

SubstitutionKind == "substitution"
ComplementaryKind == "complementary"
CategoryKind == "category"

Edge(a, b, kind, w) == [a |-> a, b |-> b, kind |-> kind, w |-> w]

\* a graph with substitution chains, a second component and every edge kind
GraphRich ==
    [nodes |-> {chicken, tofu, tomato, onion, garlic, garlic_powder, shallot, basil},
     edges |-> {Edge(garlic, garlic_powder, SubstitutionKind, 9),
                Edge(garlic_powder, shallot, SubstitutionKind, 6),
                Edge(garlic, shallot, SubstitutionKind, 5),
                Edge(onion, shallot, SubstitutionKind, 8),
                Edge(chicken, tofu, SubstitutionKind, 7),
                Edge(tomato, basil, ComplementaryKind, ComplementaryWeight),
                Edge(tomato, garlic, ComplementaryKind, ComplementaryWeight),
                Edge(onion, garlic, CategoryKind, CategoryWeight)}]

\* a sparse graph: onion, tomato, basil and shallot have no substitution edge
GraphSparse ==
    [nodes |-> {chicken, tofu, tomato, onion, garlic, garlic_powder, basil},
     edges |-> {Edge(garlic, garlic_powder, SubstitutionKind, WeightOne),
                Edge(tomato, basil, ComplementaryKind, ComplementaryWeight),
                Edge(tomato, onion, ComplementaryKind, ComplementaryWeight),
                Edge(chicken, tofu, CategoryKind, CategoryWeight)}]

\* a graph whose garlic has more substitutes than an enrichment asks for, the
\* weakest of them with weight 0.0
GraphDense ==
    [nodes |-> {chicken, tofu, tomato, onion, garlic, garlic_powder, shallot, basil},
     edges |-> {Edge(garlic, garlic_powder, SubstitutionKind, 9),
                Edge(garlic, shallot, SubstitutionKind, 8),
                Edge(garlic, onion, SubstitutionKind, 7),
                Edge(garlic, basil, SubstitutionKind, 6),
                Edge(garlic, tomato, SubstitutionKind, 5),
                Edge(garlic, tofu, SubstitutionKind, 4),
                Edge(garlic, chicken, SubstitutionKind, 0)}]

\* a graph built from an empty relationship table
GraphEmpty == [nodes |-> {}, edges |-> {}]

GraphPool == {GraphRich, GraphSparse, GraphDense, GraphEmpty}

\* every name a query or a request may carry
Names == {chicken, tofu, tomato, onion, garlic, garlic_powder, shallot, basil, unknown}

\* the edges of g between u and v (the graph is undirected)
EdgesBetween(g, u, v) ==
    {e \in g.edges : (e.a = u /\ e.b = v) \/ (e.a = v /\ e.b = u)}

\* graph.neighbors(u), over the edges of the given kinds
Neighbors(g, u, kinds) ==
    {v \in g.nodes : v # u /\ \E e \in EdgesBetween(g, u, v) : e.kind \in kinds}

AllKinds == {SubstitutionKind, ComplementaryKind, CategoryKind}

\* graph[u][v]['weight'] among the edges of the given kinds (a pair of nodes
\* of the pool has one edge): the cheapest for a path cost, the strongest for
\* a substitution
MinWeight(g, u, v, kinds) ==
    LET ws == {e.w : e \in {x \in EdgesBetween(g, u, v) : x.kind \in kinds}}
    IN CHOOSE w \in ws : \A x \in ws : w <= x

MaxWeight(g, u, v, kinds) ==
    LET ws == {e.w : e \in {x \in EdgesBetween(g, u, v) : x.kind \in kinds}}
    IN CHOOSE w \in ws : \A x \in ws : w >= x

\* no path
NoPath == -1

RECURSIVE PathCosts(_, _, _, _)
\* the costs of the simple paths from u to b that avoid the nodes in seen
PathCosts(g, u, b, seen) ==
    IF u = b THEN {0}
    ELSE UNION {{c + MinWeight(g, u, v, AllKinds) : c \in PathCosts(g, v, b, seen \cup {v})} :
                   v \in Neighbors(g, u, AllKinds) \ seen}

\* nx.shortest_path_length(graph, a, b, weight='weight') for nodes of the
\* graph; NoPath where networkx finds none
shortest_path_length(g, a, b) ==
    LET costs == PathCosts(g, a, b, {a})
    IN IF costs = {} THEN NoPath ELSE CHOOSE c \in costs : \A x \in costs : c <= x

\* similarity = 1.0 / (1.0 + path_length), path_length in tenths
PathSimilarity(path_length) == Q(WeightOne, WeightOne + path_length)

\* a faulty variant: membership in the graph is tested before a == b
similarity_members_first(g, a, b) ==
    IF a \notin g.nodes \/ b \notin g.nodes THEN QZero
    ELSE IF a = b THEN QOne
    ELSE LET p == shortest_path_length(g, a, b)
         IN IF p = NoPath THEN QZero ELSE PathSimilarity(p)

\* similarity(a, b): 1 if a == b, 0 if there is no path (or a name is not in
\* the graph), else 1 / (1 + shortest weighted path)
similarity(g, a, b) ==
    IF a = b THEN QOne
    ELSE IF a \notin g.nodes \/ b \notin g.nodes THEN QZero
    ELSE LET p == shortest_path_length(g, a, b)
         IN IF p = NoPath THEN QZero ELSE PathSimilarity(p)

\* a substitution candidate with its score in hundredths
Sub(name, score) == [ingredient |-> name, score |-> score]

\* the candidate of S that ranks first: highest score, then name order
BestEntry(S) ==
    CHOOSE e \in S : \A f \in S :
        \/ e = f
        \/ e.score > f.score
        \/ (e.score = f.score /\ NameLess(e.ingredient, f.ingredient))

RECURSIVE SortAscending(_)
\* a faulty variant: the weakest candidate comes first
SortAscending(S) ==
    IF S = {} THEN <<>>
    ELSE LET e == BestEntry(S) IN SortAscending(S \ {e}) \o <<e>>

RECURSIVE SortByScore(_)
\* sorted(S, key=lambda x: x.score, reverse=True)
SortByScore(S) ==
    IF S = {} THEN <<>>
    ELSE LET e == BestEntry(S) IN <<e>> \o SortByScore(S \ {e})

\* direct substitutions: substitution-kind neighbours, score = edge weight
DirectSubs(g, x) ==
    {Sub(v, WeightOne * MaxWeight(g, x, v, {SubstitutionKind})) :
        v \in Neighbors(g, x, {SubstitutionKind})}

\* a faulty variant: the walk may come back to the ingredient itself
TwoHopSubsWithSelf(g, x) ==
    UNION {{Sub(v2, MaxWeight(g, x, v1, AllKinds) * MaxWeight(g, v1, v2, AllKinds)) :
               v2 \in Neighbors(g, v1, AllKinds)} :
           v1 \in Neighbors(g, x, AllKinds)}

\* indirect substitutions (2-hop) over graph.neighbors: path_weight = product
\* of the two edge weights
TwoHopSubs(g, x) ==
    UNION {{Sub(v2, MaxWeight(g, x, v1, AllKinds) * MaxWeight(g, v1, v2, AllKinds)) :
               v2 \in Neighbors(g, v1, AllKinds) \ {x}} :
           v1 \in Neighbors(g, x, AllKinds)}

\* the highest score the entries of S give to the candidate v
TopScore(S, v) ==
    LET ss == {e.score : e \in {f \in S : f.ingredient = v}}
    IN CHOOSE s \in ss : \A t \in ss : s >= t

Take(s, k) == SubSeq(s, 1, Min(Len(s), k))

\* substitutions(ingredient, limit): direct neighbours by weight descending,
\* extended with 2-hop candidates when fewer than limit, each candidate once
\* with its highest score, truncated to limit; empty for an unknown name
substitutions(g, x, limit) ==
    IF x \notin g.nodes THEN <<>>
    ELSE LET direct == DirectSubs(g, x)
             twohop == IF Cardinality(direct) < limit THEN TwoHopSubs(g, x) ELSE {}
             all == direct \cup twohop
             first == SortByScore(direct)
             later == SortByScore({Sub(v, TopScore(twohop, v)) :
                         v \in {e.ingredient : e \in twohop}
                                 \ {e.ingredient : e \in direct}})
             listed == first \o later
         IN Take([i \in 1..Len(listed) |->
                     Sub(listed[i].ingredient, TopScore(all, listed[i].ingredient))],
                 limit)

---------------------------------------------------------------------------
(* Recipes and requests *)

Recipe(id, ingredients, cuisine, tags) ==
    [id |-> id, ingredients |-> ingredients, cuisine |-> cuisine, dietary_tags |-> tags]

\* the recipes storage may hold; names are kept as they were entered
RecipePool ==
    {Recipe(1, <<chicken, tomato, onion, garlic>>, "italian", {"gluten-free"}),
     Recipe(2, <<tofu, <<" ","G","a">>, tomato>>, "asian", {"vegan", "gluten-free"}),
     Recipe(3, <<garlic, <<"T","m"," ">>, tofu>>, "italian", {"vegan"}),
     Recipe(4, <<onion>>, "italian", {"vegan", "gluten-free"}),
     Recipe(5, <<>>, "italian", {"vegan", "gluten-free"})}

\* names as a client may send them
RawNames ==
    {chicken, tomato, onion, garlic_powder, tofu, <<"G","A"," ">>}

DietaryTags == {"vegan", "gluten-free"}
NoCuisine == "none"
Cuisines == {NoCuisine, "italian"}

NoRequest ==
    [available_ingredients |-> {}, dietary_restrictions |-> {},
     cuisine_preference |-> NoCuisine, max_recipes |-> 0]

\* SuggestionRequest: available names normalized, duplicates collapsed
ParseRequest(raw, restrictions, cuisine, k) ==
    [available_ingredients |-> {Normalize(x) : x \in raw},
     dietary_restrictions |-> restrictions,
     cuisine_preference |-> cuisine,
     max_recipes |-> k]

RecipeById(id) == CHOOSE r \in corpus : r.id = id

\* recipe_ingredients = set(recipe['ingredients']), by normalized name
recipe_ingredients(r) == {Normalize(r.ingredients[i]) : i \in 1..Len(r.ingredients)}

\* a recipe violates a restriction it does not carry the tag of
Violates(r, restrictions) == \E t \in restrictions : t \notin r.dietary_tags

---------------------------------------------------------------------------
(* CandidateFilter (greedy) *)

\* a faulty variant: the fraction of required ingredients that are missing
match_ratio_missing(required, available) ==
    Q(Cardinality(required \ available), Cardinality(required))

\* a faulty variant: intersection over union
match_ratio_jaccard(required, available) ==
    Q(Cardinality(required \cap available), Cardinality(required \cup available))

\* match_ratio = len(intersection) / len(recipe_ingredients)
match_ratio(required, available) ==
    Q(Cardinality(required \cap available), Cardinality(required))

MatchRatio(r, available) == match_ratio(recipe_ingredients(r), available)

\* len(recipe_ingredients) = 0 for one of the recipes: the division of
\* match_ratio raises ZeroDivisionError
ScoreRaises(recipes) == \E r \in recipes : recipe_ingredients(r) = {}

\* a faulty variant: the stored names are compared as they were entered
missing_ingredients_raw(r, available) == Range(r.ingredients) \ available

\* missing = recipe.ingredients - available_ingredients
missing_ingredients(r, available) == recipe_ingredients(r) \ available

\* missing_count = len(recipe_ingredients - available_ingredients)
missing_count(r, available) == Cardinality(missing_ingredients(r, available))

\* score = match_ratio * 100 - missing_count * 10
greedy_score(r, available) ==
    QSub(Q(100 * MatchRatio(r, available).n, MatchRatio(r, available).d),
         QInt(10 * missing_count(r, available)))

\* cuisine_bonus when recipe.cuisine equals the requested preference
cuisine_bonus(r, req) ==
    IF req.cuisine_preference # NoCuisine /\ r.cuisine = req.cuisine_preference
    THEN CuisineBonus ELSE 0

\* the greedy metrics of one recipe
ScoreRecipe(r, req) ==
    [match_ratio |-> MatchRatio(r, req.available_ingredients),
     missing_count |-> missing_count(r, req.available_ingredients),
     score |-> QAdd(greedy_score(r, req.available_ingredients),
                    QInt(cuisine_bonus(r, req)))]

\* a faulty variant: a recipe passes when it satisfies any one restriction
PassesDietaryAny(r, req) ==
    \/ req.dietary_restrictions = {}
    \/ \E t \in req.dietary_restrictions : t \in r.dietary_tags

\* Filter by dietary restrictions (hard constraints)
PassesDietary(r, req) == ~Violates(r, req.dietary_restrictions)

\* a recipe with match_ratio 0 is excluded
PassesRatio(m) == QLt(QZero, m.match_ratio)

\* a faulty variant: the sort key is the score alone
RanksBeforeByScore(sc, a, b) == QLt(sc[b].score, sc[a].score)

\* id a ranks before id b: score descending, then match_ratio descending,
\* then recipe id
RanksBefore(sc, a, b) ==
    \/ QLt(sc[b].score, sc[a].score)
    \/ /\ QEq(sc[a].score, sc[b].score)
       /\ \/ QLt(sc[b].match_ratio, sc[a].match_ratio)
          \/ (QEq(sc[a].match_ratio, sc[b].match_ratio) /\ a < b)

RECURSIVE SortByGreedy(_, _)
\* Sort by greedy score
SortByGreedy(sc, ids) ==
    IF ids = {} THEN <<>>
    ELSE LET a == CHOOSE x \in ids : \A y \in ids \ {x} : RanksBefore(sc, x, y)
         IN <<a>> \o SortByGreedy(sc, ids \ {a})

\* Select top 50 candidates
SelectCandidates(sc, ids) == Take(SortByGreedy(sc, ids), TopCandidates)

\* the member at position i of the list of ids is sorted before the one at
\* position j: it ranks before it, or they rank alike and it comes first
SortsBefore(sc, ids, i, j) ==
    \/ RanksBefore(sc, ids[i], ids[j])
    \/ (~RanksBefore(sc, ids[j], ids[i]) /\ i < j)

\* the list of ids sorted; members that rank alike keep the order they had
\* (the number of members sorted before each member is tabulated once)
SortRanked(sc, ids) ==
    LET before == [i \in 1..Len(ids) |->
                      Cardinality({j \in 1..Len(ids) :
                                      j # i /\ SortsBefore(sc, ids, j, i)})] @@ <<>>
    IN [k \in 1..Len(ids) |-> ids[CHOOSE i \in 1..Len(ids) : before[i] = k - 1]]

\* the ids of the recipes of the list that pass the filter, in list order
KeepEligible(recipes, sc, req) ==
    LET kept == SelectSeq(recipes,
                          LAMBDA r : PassesDietary(r, req) /\ PassesRatio(sc[r.id]))
    IN [i \in 1..Len(kept) |-> kept[i].id]

\* the scoring raised: the filter returns no candidate list
FilterFailed == [status |-> "failed", candidates |-> <<>>]

\* the greedy metrics of the recipes of the list, by id (tabulated once)
ScoreTable(recipes, req) ==
    [id \in {recipes[i].id : i \in 1..Len(recipes)} |->
        ScoreRecipe(CHOOSE r \in Range(recipes) : r.id = id, req)] @@ <<>>

\* filter, sort, select the top 50
RankedCandidates(recipes, sc, req) ==
    [status |-> "ok",
     candidates |-> Take(SortRanked(sc, KeepEligible(recipes, sc, req)), TopCandidates)]

\* CandidateFilter over the corpus as the list storage hands over: score,
\* filter, sort, select the top 50
CandidateFilter(recipes, req) ==
    IF ScoreRaises(Range(recipes)) THEN FilterFailed
    ELSE RankedCandidates(recipes, ScoreTable(recipes, req), req)

---------------------------------------------------------------------------
(* Enrichment (graph pass over candidates) *)

RECURSIVE KeepUnavailable(_, _)
\* a faulty variant: the availability test is inverted
KeepUnavailable(subs, keep) ==
    IF subs = <<>> THEN <<>>
    ELSE IF Head(subs).ingredient \notin keep
         THEN <<Head(subs)>> \o KeepUnavailable(Tail(subs), keep)
         ELSE KeepUnavailable(Tail(subs), keep)

RECURSIVE KeepAvailable(_, _)
\* the entries of the list subs whose ingredient is in the set keep, in order
KeepAvailable(subs, keep) ==
    IF subs = <<>> THEN <<>>
    ELSE IF Head(subs).ingredient \in keep
         THEN <<Head(subs)>> \o KeepAvailable(Tail(subs), keep)
         ELSE KeepAvailable(Tail(subs), keep)

\* substitutions of a missing ingredient that the user has, ranked by score
AvailableSubstitutions(g, missing, available) ==
    SortByScore(Range(KeepAvailable(substitutions(g, missing, EnrichLimit), available)))

\* the first (best) available substitution, or none
NoSubstitution == Sub(<<>>, 0)

find_best_substitution(g, missing, available) ==
    LET ranked == SortByScore(Range(substitutions(g, missing, EnrichLimit)))
        usable == KeepAvailable(ranked, available)
    IN IF usable = <<>> THEN NoSubstitution ELSE Head(usable)

\* clamped to [0,1]
Clamp01(q) == IF QLt(q, QZero) THEN QZero ELSE IF QLt(QOne, q) THEN QOne ELSE q

\* a faulty variant: every required ingredient that has an available
\* substitution is credited, missing or not
AdjustedScoreAllRequired(g, r, available) ==
    LET required == recipe_ingredients(r)
        best == [m \in required |-> find_best_substitution(g, m, available).score]
    IN IF required = {} THEN QZero
       ELSE Q(100 * Cardinality(required \cap available) + SumOver(best, required),
              100 * Cardinality(required))

\* adjusted_score = match_ratio + sum(best substitution score of each missing
\* ingredient) / |required|, substitution scores being hundredths
AdjustedScore(g, r, available) ==
    LET required == recipe_ingredients(r)
        missing == missing_ingredients(r, available)
        best == [m \in missing |-> find_best_substitution(g, m, available).score]
    IN IF required = {} THEN QZero
       ELSE Q(100 * Cardinality(required \cap available) + SumOver(best, missing),
              100 * Cardinality(required))

EnrichRecipe(g, r, req) ==
    LET available == req.available_ingredients
        missing == missing_ingredients(r, available)
    IN [match_score |-> Clamp01(AdjustedScore(g, r, available)),
        missing_ingredients |-> missing,
        substitution_suggestions |->
            [m \in missing |-> AvailableSubstitutions(g, m, available)]]

\* the outcome of POST /api/ingredients/gap-analysis
GapError == [status |-> "error"]

\* analyze_gaps(target_recipe, available_ingredients)
analyze_gaps(g, target, available) ==
    LET required == recipe_ingredients(target)
        missing == missing_ingredients(target, available)
        best == [m \in missing |-> find_best_substitution(g, m, available)]
        recommended == {m \in missing : best[m] # NoSubstitution}
        available_count == Cardinality(required \cap available)
        substitution_count == Cardinality(recommended)
        total_ingredients == Cardinality(required)
    IN IF total_ingredients = 0
       THEN GapError
       ELSE [status |-> "ok",
             missing_ingredients |-> missing,
             substitution_suggestions |-> [m \in recommended |-> best[m]],
             feasibility_score |->
                 Q(available_count + substitution_count, total_ingredients)]

---------------------------------------------------------------------------
(* SuggestionPipeline *)

\* a faulty variant: the greedy score is exposed instead of the adjusted one
FinalScoreGreedy(en, id) == scored[id].score

\* the score exposed to the caller as match_score
FinalScore(en, id) == en[id].match_score

\* id a is listed before id b in the response: final score descending
ListedBefore(en, a, b) ==
    \/ QLt(FinalScore(en, b), FinalScore(en, a))
    \/ (QEq(FinalScore(en, a), FinalScore(en, b)) /\ a < b)

RECURSIVE SortByFinal(_, _)
SortByFinal(en, ids) ==
    IF ids = {} THEN <<>>
    ELSE LET a == CHOOSE x \in ids : \A y \in ids \ {x} : ListedBefore(en, x, y)
         IN <<a>> \o SortByFinal(en, ids \ {a})

\* one entry of the response
ScoredRecipe(en, id) ==
    [id |-> id,
     match_score |-> FinalScore(en, id),
     missing_ingredients |-> en[id].missing_ingredients,
     substitution_suggestions |-> en[id].substitution_suggestions]

\* a faulty variant: the list is not truncated
BuildResponseAll(en, ids, k) ==
    LET order == SortByFinal(en, ids)
    IN [i \in 1..Len(order) |-> ScoredRecipe(en, order[i])]

\* the response list: sorted by final score descending, truncated to the
\* requested max count
BuildResponse(en, ids, k) ==
    LET order == Take(SortByFinal(en, ids), k)
    IN [i \in 1..Len(order) |-> ScoredRecipe(en, order[i])]

Empty == [x \in {} |-> 0]

\* 1. Score all recipes using greedy metrics
ScoreStage(req) == [id \in {r.id : r \in corpus} |-> ScoreRecipe(RecipeById(id), req)]

\* 2. Filter by dietary restrictions (hard constraints); zero ratios go too
FilterStage(sc, req) ==
    {id \in DOMAIN sc : PassesDietary(RecipeById(id), req) /\ PassesRatio(sc[id])}

\* graph analysis of the candidates
EnrichStage(g, cands, req) == [id \in Range(cands) |-> EnrichRecipe(g, RecipeById(id), req)]

PipeIdle ==
    /\ request = NoRequest
    /\ pc = "idle"
    /\ scored = Empty
    /\ eligible = {}
    /\ candidates = <<>>
    /\ enriched = Empty
    /\ response = <<>>

\* the web application is not in use
NoNav == [phase |-> "off"]
NavIdle == nav = NoNav

NoDash == [phase |-> "off"]
DashIdle == dash = NoDash

\* no request is served concurrently
NoConc == [phase |-> "off"]
ConcIdle == conc = NoConc

\* POST /api/recipes/suggest arrives
Receive ==
    /\ pc = "idle"
    /\ \E raw \in SUBSET RawNames, restrictions \in SUBSET DietaryTags,
          cuisine \in Cuisines, k \in 1..MaxRecipes :
          /\ Cardinality(raw) <= MaxAvail
          /\ request' = ParseRequest(raw, restrictions, cuisine, k)
    /\ pc' = "score"
    /\ scored' = Empty
    /\ eligible' = {}
    /\ candidates' = <<>>
    /\ enriched' = Empty
    /\ response' = <<>>
    /\ UNCHANGED <<graph, nav, dash, conc, corpus, bt, query>>

\* 1. Score all recipes using greedy metrics
ScoreAll ==
    /\ pc = "score"
    /\ IF ScoreRaises(corpus)
       THEN /\ pc' = "failed"
            /\ UNCHANGED scored
       ELSE /\ scored' = ScoreStage(request)
            /\ pc' = "filter"
    /\ UNCHANGED <<graph, nav, dash, conc, corpus, request, eligible, candidates, enriched, response, bt, query>>

\* 2. Filter by dietary restrictions (hard constraints)
HardFilter ==
    /\ pc = "filter"
    /\ eligible' = FilterStage(scored, request)
    /\ pc' = "select"
    /\ UNCHANGED <<graph, nav, dash, conc, corpus, request, scored, candidates, enriched, response, bt, query>>

\* 3. Sort by greedy score, select top 50 candidates
Select ==
    /\ pc = "select"
    /\ candidates' = SelectCandidates(scored, eligible)
    /\ pc' = "enrich"
    /\ UNCHANGED <<graph, nav, dash, conc, corpus, request, scored, eligible, enriched, response, bt, query>>

\* graph analysis: substitution possibilities and adjusted scores
Enrich ==
    /\ pc = "enrich"
    /\ enriched' = EnrichStage(graph, candidates, request)
    /\ pc' = "respond"
    /\ UNCHANGED <<graph, nav, dash, conc, corpus, request, scored, eligible, candidates, response, bt, query>>

\* the ranked response is returned
Respond ==
    /\ pc = "respond"
    /\ response' = BuildResponse(enriched, Range(candidates), request.max_recipes)
    /\ pc' = "done"
    /\ UNCHANGED <<graph, nav, dash, conc, corpus, request, scored, eligible, candidates, enriched, bt, query>>

\* the response, or the failure, has been sent; the service waits for the
\* next request
Finish ==
    /\ pc \in {"done", "failed"}
    /\ request' = NoRequest
    /\ pc' = "idle"
    /\ scored' = Empty
    /\ eligible' = {}
    /\ candidates' = <<>>
    /\ enriched' = Empty
    /\ response' = <<>>
    /\ UNCHANGED <<graph, nav, dash, conc, corpus, bt, query>>

---------------------------------------------------------------------------
(* Concurrent suggestion requests *)

\* the request handlers that may run at once
Workers == 1..MaxWorkers

\* the requests the handlers are given
ConcRequests ==
    {ParseRequest({chicken, tomato, onion, garlic_powder}, {}, NoCuisine, MaxRecipes),
     ParseRequest({tofu, <<"G","A"," ">>}, {"vegan"}, "italian", 1),
     ParseRequest({}, {}, "italian", MaxRecipes)}

\* the requests the service receives in one run
MaxServed == 2

\* the performance counters of the engine, as at start-up (the elapsed time is
\* left out)
algorithm_stats == [backtracking_calls |-> 0, greedy_selections |-> 0, graph_traversals |-> 0]

\* a handler that serves no request
NoCall == [pc |-> "idle", request |-> NoRequest, response |-> <<>>, metrics |-> algorithm_stats]

\* the CandidateFilter and enrichment working state of one request
NoWork == [scored |-> Empty, eligible |-> {}, candidates |-> <<>>, enriched |-> Empty]

\* the service with no request in progress
NewService ==
    [phase |-> "serving",
     call |-> [w \in Workers |-> NoCall],
     work |-> [w \in Workers |-> NoWork],
     stats |-> algorithm_stats,
     served |-> 0]

\* a faulty variant: every handler uses the same working state
WorkOfShared(w) == 1

\* the working state the handler w uses: its own
WorkOf(w) == w

\* the result of a request served alone
SoloResponse(g, req) ==
    LET sc == ScoreStage(req) @@ <<>>
        el == FilterStage(sc, req)
        ca == SelectCandidates(sc, el)
        en == EnrichStage(g, ca, req) @@ <<>>
    IN BuildResponse(en, Range(ca), req.max_recipes)

\* the filter evaluations of one request: one for each recipe of the corpus
FilterEvaluations(recipes) == Cardinality(recipes)

\* the graph queries of one request: one for each missing ingredient of each
\* candidate
GraphQueries(en) ==
    SumOver([id \in DOMAIN en |-> Cardinality(en[id].missing_ingredients)], DOMAIN en)

\* the counters after the filter evaluations of one more request
CountSelections(stats, recipes) ==
    [stats EXCEPT !.greedy_selections = @ + FilterEvaluations(recipes)]

\* the counters after the graph queries of one more request
CountTraversals(stats, en) ==
    [stats EXCEPT !.graph_traversals = @ + GraphQueries(en)]

\* the counters of a request served alone by a service just started
SoloMetrics(g, req) ==
    LET sc == ScoreStage(req) @@ <<>>
        ca == SelectCandidates(sc, FilterStage(sc, req))
    IN CountTraversals(CountSelections(algorithm_stats, corpus), EnrichStage(g, ca, req))

\* the handler w moves to the stage with its working state replaced by work
Advance(w, stage, work) ==
    [conc EXCEPT !.call[w].pc = stage, !.work[WorkOf(w)] = work]

ConcReceive(w) ==
    /\ conc.phase = "serving" /\ conc.call[w].pc = "idle"
    /\ conc.served < MaxServed
    /\ \E req \in ConcRequests :
          conc' = [conc EXCEPT !.call[w] = [NoCall EXCEPT !.pc = "score", !.request = req],
                               !.work[WorkOf(w)] = NoWork,
                               !.served = @ + 1]
    /\ UNCHANGED <<graph, nav, dash, bt, query>>
    /\ UNCHANGED pipeVars

ConcScore(w) ==
    /\ conc.phase = "serving" /\ conc.call[w].pc = "score"
    /\ conc' = IF ScoreRaises(corpus)
               THEN [conc EXCEPT !.call[w].pc = "failed"]
               ELSE [Advance(w, "filter",
                             [conc.work[WorkOf(w)] EXCEPT
                                 !.scored = ScoreStage(conc.call[w].request)])
                        EXCEPT !.stats = CountSelections(@, corpus)]
    /\ UNCHANGED <<graph, nav, dash, bt, query>>
    /\ UNCHANGED pipeVars

ConcFilter(w) ==
    /\ conc.phase = "serving" /\ conc.call[w].pc = "filter"
    /\ LET work == conc.work[WorkOf(w)]
       IN conc' = Advance(w, "select",
                          [work EXCEPT !.eligible = FilterStage(work.scored, conc.call[w].request)])
    /\ UNCHANGED <<graph, nav, dash, bt, query>>
    /\ UNCHANGED pipeVars

ConcSelect(w) ==
    /\ conc.phase = "serving" /\ conc.call[w].pc = "select"
    /\ LET work == conc.work[WorkOf(w)]
       IN conc' = Advance(w, "enrich",
                          [work EXCEPT !.candidates = SelectCandidates(work.scored, work.eligible)])
    /\ UNCHANGED <<graph, nav, dash, bt, query>>
    /\ UNCHANGED pipeVars

ConcEnrich(w) ==
    /\ conc.phase = "serving" /\ conc.call[w].pc = "enrich"
    /\ LET work == conc.work[WorkOf(w)]
           en == EnrichStage(graph, work.candidates, conc.call[w].request)
       IN conc' = [Advance(w, "respond", [work EXCEPT !.enriched = en])
                      EXCEPT !.stats = CountTraversals(@, en)]
    /\ UNCHANGED <<graph, nav, dash, bt, query>>
    /\ UNCHANGED pipeVars

ConcRespond(w) ==
    /\ conc.phase = "serving" /\ conc.call[w].pc = "respond"
    /\ LET work == conc.work[WorkOf(w)]
       IN conc' = [conc EXCEPT !.call[w].pc = "done",
                               !.call[w].response =
                                   BuildResponse(work.enriched, Range(work.candidates),
                                                 conc.call[w].request.max_recipes),
                               !.call[w].metrics = conc.stats]
    /\ UNCHANGED <<graph, nav, dash, bt, query>>
    /\ UNCHANGED pipeVars

ConcFinish(w) ==
    /\ conc.phase = "serving" /\ conc.call[w].pc \in {"done", "failed"}
    /\ conc' = [conc EXCEPT !.call[w] = NoCall, !.work[WorkOf(w)] = NoWork]
    /\ UNCHANGED <<graph, nav, dash, bt, query>>
    /\ UNCHANGED pipeVars

---------------------------------------------------------------------------
(* CombinationOptimizer (backtracking) *)

\* combination scores are counted in units of 1/ScoreUnits, which holds every
\* match_score of the recipe pool exactly
ScoreUnits == 12 * 100

ToUnits(q) == (q.n * ScoreUnits) \div q.d

\* the diversity bonus for each ingredient category a recipe adds
DiversityBonus == ScoreUnits \div 10

\* the overlap penalty for each ingredient another selected recipe requires
OverlapPenalty == ScoreUnits \div 10

\* the category tag of an ingredient
Category(name) ==
    IF name \in {chicken, tofu} THEN "protein"
    ELSE IF name \in {tomato, onion, garlic, shallot} THEN "vegetable"
    ELSE IF name \in {garlic_powder} THEN "spice"
    ELSE IF name \in {basil} THEN "herb"
    ELSE "other"

\* an enriched candidate as the optimizer reads it
Candidate(r, en) ==
    [id |-> r.id,
     score |-> ToUnits(en.match_score),
     ingredients |-> recipe_ingredients(r),
     dietary_tags |-> r.dietary_tags]

\* the sorted candidate list the filter and the enrichment produce for a
\* request
CandidateList(g, recipes, req) ==
    LET sc == [id \in {r.id : r \in recipes} |->
                  ScoreRecipe(CHOOSE r \in recipes : r.id = id, req)]
        order == SelectCandidates(sc, {id \in DOMAIN sc : PassesRatio(sc[id])})
    IN [i \in 1..Len(order) |->
           LET r == CHOOSE x \in recipes : x.id = order[i]
           IN Candidate(r, EnrichRecipe(g, r, req))]

\* a call of backtrack(index, current_combination, used_ingredients,
\* current_score); stage tells how far its body has run
Frame(index, used, score) ==
    [index |-> index, used_ingredients |-> used, current_score |-> score,
     stage |-> "call"]

\* the optional budget of a search: a number of calls of backtrack, a
\* deadline, or none
NoBudget == [kind |-> "none"]
StepBudget(n) == [kind |-> "steps", steps |-> n]
Deadline == [kind |-> "deadline"]
Budgets == {NoBudget, Deadline, StepBudget(MaxBudget)}

\* the optimizer before the search, best_score = 0 and no best solution
NewSearch(recipes) ==
    [phase |-> "ready",
     recipes |-> recipes,
     dietary_restrictions |-> {},
     max_recipes |-> 0,
     budget |-> NoBudget,
     partial |-> FALSE,
     stack |-> <<>>,
     current_combination |-> <<>>,
     best_combination |-> <<>>,
     best_ingredients |-> {},
     best_score |-> 0,
     recorded |-> FALSE,
     backtracking_calls |-> 0,
     result |-> <<>>]

TopFrame == bt.stack[Len(bt.stack)]

\* a faulty variant: the budget is never looked at
StepsExceededNever == FALSE

\* the call just entered is one more than the step budget allows
StepsExceeded ==
    /\ bt.budget.kind = "steps"
    /\ bt.backtracking_calls > bt.budget.steps

\* the search stops where it is and hands out the best combination so far
StopSearch ==
    [bt EXCEPT !.phase = "done", !.stack = <<>>, !.current_combination = <<>>,
               !.result = bt.best_combination, !.partial = TRUE]

Pop(stack) == SubSeq(stack, 1, Len(stack) - 1)

\* the frame on top of the stack with its stage replaced
Restage(stack, stage) == [stack EXCEPT ![Len(stack)].stage = stage]

\* a faulty variant: the size test lets one recipe too many in
BaseCaseLate(size, index, k, n) == size > k \/ index > n

\* if len(current_combination) >= max_recipes or index >= len(recipes)
\* (indices count from 1 here)
BaseCase(size, index, k, n) == size >= k \/ index > n

AtBaseCase ==
    BaseCase(Len(bt.current_combination), TopFrame.index, bt.max_recipes, Len(bt.recipes))

RECURSIVE TopSum(_, _)
\* the sum of the k largest members of the list of scores
TopSum(scores, k) ==
    IF k <= 0 \/ scores = <<>> THEN 0
    ELSE LET i == CHOOSE j \in 1..Len(scores) : \A m \in 1..Len(scores) : scores[j] >= scores[m]
         IN scores[i] + TopSum([m \in 1..(Len(scores) - 1) |->
                                   IF m < i THEN scores[m] ELSE scores[m + 1]], k - 1)

\* remaining_max_score: the sum of the top (max_size - |current_combination|)
\* scores of the candidates from index on
remaining_max_score(recipes, index, room) ==
    TopSum([i \in 1..(Len(recipes) - index + 1) |-> recipes[index + i - 1].score], room)

\* if current_score + remaining_max_score <= best_score
BoundPruned ==
    TopFrame.current_score
        + remaining_max_score(bt.recipes, TopFrame.index,
                              bt.max_recipes - Len(bt.current_combination))
      <= bt.best_score

\* an already-recorded solution covers a superset of the current
\* combination's ingredients with an equal-or-higher score
Dominated ==
    /\ bt.recorded
    /\ TopFrame.used_ingredients \subseteq bt.best_ingredients
    /\ bt.best_score >= TopFrame.current_score

\* constraint_satisfied(): the recipe violates no hard dietary restriction
constraint_satisfied(recipe, restrictions) == ~Violates(recipe, restrictions)

\* the score a recipe adds to a combination that already uses the
\* ingredients in used
additional_score(recipe, used) ==
    recipe.score
      + DiversityBonus * Cardinality({Category(x) : x \in recipe.ingredients}
                                       \ {Category(x) : x \in used})
      - OverlapPenalty * Cardinality(recipe.ingredients \cap used)

\* a faulty variant: the recursive call stays at the same index
NextIndexSame(index) == index

\* backtrack(index + 1, ...)
NextIndex(index) == index + 1

\* the optimizer is asked for a combination: backtrack(0, [], set(), 0)
BtStart ==
    /\ bt.phase = "ready"
    /\ \E restrictions \in SUBSET DietaryTags, k \in 1..MaxRecipes, budget \in Budgets :
          bt' = [bt EXCEPT !.phase = "running",
                           !.dietary_restrictions = restrictions,
                           !.max_recipes = k,
                           !.budget = budget,
                           !.stack = <<Frame(1, {}, 0)>>,
                           !.backtracking_calls = 1]
    /\ UNCHANGED <<graph, nav, dash, conc>>
    /\ UNCHANGED pipeVars
    /\ UNCHANGED query

\* base case: the combination is full or the list is exhausted; the best
\* solution is replaced when the running score exceeds the best score
BtBase ==
    /\ bt.phase = "running" /\ bt.stack # <<>>
    /\ TopFrame.stage = "call"
    /\ ~StepsExceeded
    /\ AtBaseCase
    /\ bt' = IF TopFrame.current_score > bt.best_score
             THEN [bt EXCEPT !.best_combination = bt.current_combination,
                             !.best_ingredients = TopFrame.used_ingredients,
                             !.best_score = TopFrame.current_score,
                             !.recorded = TRUE,
                             !.stack = Pop(bt.stack)]
             ELSE [bt EXCEPT !.stack = Pop(bt.stack)]
    /\ UNCHANGED <<graph, nav, dash, conc>>
    /\ UNCHANGED pipeVars
    /\ UNCHANGED query

\* bound pruning: the remaining recipes cannot improve the best score
BtPrune ==
    /\ bt.phase = "running" /\ bt.stack # <<>>
    /\ TopFrame.stage = "call"
    /\ ~StepsExceeded
    /\ ~AtBaseCase
    /\ BoundPruned
    /\ bt' = [bt EXCEPT !.stack = Pop(bt.stack)]
    /\ UNCHANGED <<graph, nav, dash, conc>>
    /\ UNCHANGED pipeVars
    /\ UNCHANGED query

\* dominance pruning
BtDominated ==
    /\ bt.phase = "running" /\ bt.stack # <<>>
    /\ TopFrame.stage = "call"
    /\ ~StepsExceeded
    /\ ~AtBaseCase
    /\ ~BoundPruned
    /\ Dominated
    /\ bt' = [bt EXCEPT !.stack = Pop(bt.stack)]
    /\ UNCHANGED <<graph, nav, dash, conc>>
    /\ UNCHANGED pipeVars
    /\ UNCHANGED query

\* choice 1: include the current recipe and recurse
BtInclude ==
    /\ bt.phase = "running" /\ bt.stack # <<>>
    /\ TopFrame.stage = "call"
    /\ ~StepsExceeded
    /\ ~AtBaseCase
    /\ ~BoundPruned
    /\ ~Dominated
    /\ LET recipe == bt.recipes[TopFrame.index]
       IN /\ constraint_satisfied(recipe, bt.dietary_restrictions)
          /\ bt' = [bt EXCEPT
                      !.current_combination = Append(bt.current_combination, recipe.id),
                      !.stack = Append(Restage(bt.stack, "included"),
                                       Frame(NextIndex(TopFrame.index),
                                             TopFrame.used_ingredients \cup recipe.ingredients,
                                             TopFrame.current_score
                                               + additional_score(recipe, TopFrame.used_ingredients))),
                      !.backtracking_calls = bt.backtracking_calls + 1]
    /\ UNCHANGED <<graph, nav, dash, conc>>
    /\ UNCHANGED pipeVars
    /\ UNCHANGED query

\* constraint pruning: the recipe may not be included; go to choice 2
BtSkipViolating ==
    /\ bt.phase = "running" /\ bt.stack # <<>>
    /\ TopFrame.stage = "call"
    /\ ~StepsExceeded
    /\ ~AtBaseCase
    /\ ~BoundPruned
    /\ ~Dominated
    /\ ~constraint_satisfied(bt.recipes[TopFrame.index], bt.dietary_restrictions)
    /\ bt' = [bt EXCEPT
                !.stack = Append(Restage(bt.stack, "skipped"),
                                 Frame(NextIndex(TopFrame.index), TopFrame.used_ingredients,
                                       TopFrame.current_score)),
                !.backtracking_calls = bt.backtracking_calls + 1]
    /\ UNCHANGED <<graph, nav, dash, conc>>
    /\ UNCHANGED pipeVars
    /\ UNCHANGED query

\* the include call returned: current_combination.pop(), then choice 2: skip
\* the current recipe
BtBacktrack ==
    /\ bt.phase = "running" /\ bt.stack # <<>>
    /\ TopFrame.stage = "included"
    /\ bt' = [bt EXCEPT
                !.current_combination = Pop(bt.current_combination),
                !.stack = Append(Restage(bt.stack, "skipped"),
                                 Frame(NextIndex(TopFrame.index), TopFrame.used_ingredients,
                                       TopFrame.current_score)),
                !.backtracking_calls = bt.backtracking_calls + 1]
    /\ UNCHANGED <<graph, nav, dash, conc>>
    /\ UNCHANGED pipeVars
    /\ UNCHANGED query

\* the skip call returned: the call returns
BtReturn ==
    /\ bt.phase = "running" /\ bt.stack # <<>>
    /\ TopFrame.stage = "skipped"
    /\ bt' = [bt EXCEPT !.stack = Pop(bt.stack)]
    /\ UNCHANGED <<graph, nav, dash, conc>>
    /\ UNCHANGED pipeVars
    /\ UNCHANGED query

\* a call is entered beyond the step budget: the search ends with the best
\* combination so far, flagged partial
BtOutOfSteps ==
    /\ bt.phase = "running" /\ bt.stack # <<>>
    /\ TopFrame.stage = "call"
    /\ StepsExceeded
    /\ bt' = StopSearch
    /\ UNCHANGED <<graph, nav, dash, conc>>
    /\ UNCHANGED pipeVars
    /\ UNCHANGED query

\* a call is entered after the deadline has passed: the same
BtPastDeadline ==
    /\ bt.phase = "running" /\ bt.stack # <<>>
    /\ TopFrame.stage = "call"
    /\ bt.budget.kind = "deadline"
    /\ bt' = StopSearch
    /\ UNCHANGED <<graph, nav, dash, conc>>
    /\ UNCHANGED pipeVars
    /\ UNCHANGED query

\* the outermost call returned: the best combination is the result
BtFinish ==
    /\ bt.phase = "running" /\ bt.stack = <<>>
    /\ bt' = [bt EXCEPT !.phase = "done", !.result = bt.best_combination]
    /\ UNCHANGED <<graph, nav, dash, conc>>
    /\ UNCHANGED pipeVars
    /\ UNCHANGED query

---------------------------------------------------------------------------
(* Session middleware: updateSession *)

\* a pathname is the sequence of its pieces; "/dashboard/settings" is
\* <<"/", "dashboard", "/", "settings">> and "/dashboardx" is
\* <<"/", "dashboard", "x">>
RootPath == <<"/">>
AboutPath == <<"/", "about">>
DashboardPath == <<"/", "dashboard">>
ProtectedPath == <<"/", "protected">>
LoginPath == <<"/", "auth", "/", "login">>
SignUpPath == <<"/", "auth", "/", "sign-up">>
SignUpSuccessPath == <<"/", "auth", "/", "sign-up", "-success">>
CallbackPath == <<"/", "auth", "/", "callback">>
AuthCodeErrorPath == <<"/", "auth", "/", "auth-code-error">>

\* const protectedRoutes = ['/dashboard', '/protected']
protectedRoutes == {DashboardPath, ProtectedPath}

\* const authRoutes = [...]
authRoutes == {LoginPath, SignUpPath, SignUpSuccessPath, CallbackPath, AuthCodeErrorPath}

\* const publicRoutes = ['/', '/about']
publicRoutes == {RootPath, AboutPath}

\* the pathnames a browser may ask for
PathPool ==
    {RootPath, AboutPath, AboutPath \o <<"/", "team">>,
     DashboardPath, DashboardPath \o <<"/", "settings">>, DashboardPath \o <<"x">>,
     ProtectedPath, ProtectedPath \o <<"/", "notes">>,
     LoginPath, SignUpPath, SignUpSuccessPath, CallbackPath, AuthCodeErrorPath,
     <<"/", "auth">>, <<"/", "recipes">>}

Param(key, value) == [key |-> key, value |-> value]

\* no call has settled
NoOutcome == [kind |-> "none", message |-> <<>>, user |-> FALSE]

\* null, where it is told from the empty string
Null == <<"null", "null">>

\* a parameter that is not in the query string (no value has these pieces)
Absent == <<"absent", "absent">>

\* the piece of a query string for key: nothing when the value is Absent
Optional(key, value) == IF value = Absent THEN <<>> ELSE <<Param(key, value)>>

\* the query strings a request may carry
SearchPool ==
    {<<>>, <<Param("tab", <<"all">>)>>,
     <<Param("redirectedFrom", AboutPath), Param("tab", <<"all">>)>>}

\* pathname.startsWith(route)
StartsWith(pathname, route) ==
    /\ Len(route) <= Len(pathname)
    /\ SubSeq(pathname, 1, Len(route)) = route

RECURSIVE WithoutKey(_, _)
\* the parameters of search whose key is not key, in order
WithoutKey(search, key) ==
    IF search = <<>> THEN <<>>
    ELSE IF Head(search).key = key THEN WithoutKey(Tail(search), key)
         ELSE <<Head(search)>> \o WithoutKey(Tail(search), key)

\* url.searchParams.set(key, value): the first parameter of that key gets the
\* value and the others of that key go; a new key is appended
SetParam(search, key, value) ==
    IF \E i \in 1..Len(search) : search[i].key = key
    THEN LET i == CHOOSE j \in 1..Len(search) :
                    search[j].key = key /\ \A m \in 1..(j - 1) : search[m].key # key
         IN SubSeq(search, 1, i - 1) \o <<Param(key, value)>>
              \o WithoutKey(SubSeq(search, i + 1, Len(search)), key)
    ELSE Append(search, Param(key, value))

\* url.searchParams.get(key), <<>> standing for null
GetParam(search, key) ==
    IF \E i \in 1..Len(search) : search[i].key = key
    THEN search[CHOOSE j \in 1..Len(search) :
                    search[j].key = key /\ \A m \in 1..(j - 1) : search[m].key # key].value
    ELSE <<>>

\* searchParams.has(key)
HasParam(search, key) == \E i \in 1..Len(search) : search[i].key = key

\* the truth value of a string or null: null and the empty string are falsy
Truthy(value) == value # <<>>

\* authRoutes.some(route => pathname.startsWith(route)) || publicRoutes.includes(pathname)
IsOpenRoute(pathname) ==
    \/ \E route \in authRoutes : StartsWith(pathname, route)
    \/ pathname \in publicRoutes

\* a faulty variant: the protected routes are compared for equality
IsProtectedExact(pathname) == pathname \in protectedRoutes

\* protectedRoutes.some(route => pathname.startsWith(route))
IsProtectedRoute(pathname) == \E route \in protectedRoutes : StartsWith(pathname, route)

\* NextResponse.next({ request })
PassThrough == [kind |-> "next"]

\* NextResponse.redirect(url)
Redirect(pathname, search) == [kind |-> "redirect", pathname |-> pathname, search |-> search]

NoResponse == [kind |-> "none"]

\* a faulty variant: every request without a user is sent to the login page
updateSessionLoginWall(pathname, search, user) ==
    IF user THEN PassThrough
    ELSE Redirect(LoginPath, SetParam(search, "redirectedFrom", pathname))

\* the response of updateSession to a request, user telling whether
\* supabase.auth.getUser() returned a user
updateSession(pathname, search, user) ==
    IF IsOpenRoute(pathname) THEN PassThrough
    ELSE IF IsProtectedRoute(pathname) /\ ~user
         THEN Redirect(LoginPath, SetParam(search, "redirectedFrom", pathname))
         ELSE PassThrough

\* a browser with no session on no page
NewBrowser ==
    [phase |-> "browsing",
     session |-> FALSE,
     location |-> <<>>,
     pending |-> FALSE,
     pathname |-> <<>>,
     search |-> <<>>,
     user |-> FALSE,
     response |-> NoResponse,
     asked |-> <<>>,
     redirected |-> FALSE,
     isLoading |-> FALSE,
     error |-> Null,
     signIn |-> NoOutcome]

\* the browser asks for a page (asked keeps the path through the redirects
\* that follow)
Navigate ==
    /\ nav.phase = "browsing" /\ ~nav.pending /\ ~nav.isLoading
    /\ \E pathname \in PathPool, search \in SearchPool :
          nav' = [nav EXCEPT !.pending = TRUE, !.pathname = pathname, !.search = search,
                             !.user = FALSE, !.response = NoResponse,
                             !.asked = pathname, !.redirected = FALSE, !.error = Null]
    /\ UNCHANGED <<graph, dash, conc, bt, query>>
    /\ UNCHANGED pipeVars

\* the middleware serves the request; getUser() returns a user only when the
\* cookies hold a session, and may fail to return one even then
UpdateSession ==
    /\ nav.phase = "browsing" /\ nav.pending /\ nav.response = NoResponse
    /\ \E user \in (IF nav.session THEN {TRUE, FALSE} ELSE {FALSE}) :
          nav' = [nav EXCEPT !.user = user,
                             !.response = updateSession(nav.pathname, nav.search, user)]
    /\ UNCHANGED <<graph, dash, conc, bt, query>>
    /\ UNCHANGED pipeVars

\* the browser receives the response: it shows the page, or follows the
\* redirect with a new request
Deliver ==
    /\ nav.phase = "browsing" /\ nav.pending /\ nav.response # NoResponse
    /\ nav' = IF nav.response.kind = "redirect"
              THEN [nav EXCEPT !.pathname = nav.response.pathname,
                               !.search = nav.response.search,
                               !.user = FALSE, !.response = NoResponse,
                               !.redirected = TRUE]
              ELSE [nav EXCEPT !.pending = FALSE, !.location = nav.pathname]
    /\ UNCHANGED <<graph, dash, conc, bt, query>>
    /\ UNCHANGED pipeVars

\* a session is established (sign-in) or ends (sign-out, expiry)
SessionChange ==
    /\ nav.phase = "browsing"
    /\ nav' = [nav EXCEPT !.session = ~nav.session]
    /\ UNCHANGED <<graph, dash, conc, bt, query>>
    /\ UNCHANGED pipeVars

---------------------------------------------------------------------------
(* Login page: handleLogin *)

SignInError(message) == [kind |-> "error", message |-> message, user |-> FALSE]
SignInData(user) == [kind |-> "data", message |-> <<>>, user |-> user]
SignInRejects == [kind |-> "rejects", message |-> <<>>, user |-> FALSE]

\* the ways signInWithPassword may settle: with an AuthError, with data that
\* holds a user or none, or rejecting with something that is no Error
SignInOutcomes ==
    {SignInError(<<"Invalid login credentials">>), SignInData(TRUE), SignInData(FALSE),
     SignInRejects}

\* a faulty variant: the login always leads to the dashboard
LoginTargetDashboard(search) == DashboardPath

\* searchParams.get("redirectedFrom") || "/dashboard"
LoginTarget(search) ==
    IF Truthy(GetParam(search, "redirectedFrom")) THEN GetParam(search, "redirectedFrom")
    ELSE DashboardPath

\* the browser after /auth/login has been passed through and shown
LoginPageShown(search) ==
    [NewBrowser EXCEPT !.location = LoginPath, !.pathname = LoginPath, !.search = search,
                       !.asked = LoginPath, !.response = PassThrough]

\* the login page is shown and no sign-in is under way
LoginPageIdle ==
    /\ nav.phase = "browsing" /\ ~nav.pending
    /\ nav.location = LoginPath
    /\ ~nav.isLoading

\* the form is submitted: handleLogin up to the await of signInWithPassword
HandleLogin ==
    /\ LoginPageIdle
    /\ nav' = [nav EXCEPT !.isLoading = TRUE, !.error = Null, !.signIn = NoOutcome]
    /\ UNCHANGED <<graph, dash, conc, bt, query>>
    /\ UNCHANGED pipeVars

\* signInWithPassword settles: handleLogin from the await to its end
SignInSettles ==
    /\ nav.phase = "browsing" /\ nav.isLoading
    /\ \E outcome \in SignInOutcomes :
          nav' = IF outcome.kind = "error"
                 THEN [nav EXCEPT !.signIn = outcome, !.error = outcome.message, !.isLoading = FALSE]
                 ELSE IF outcome.kind = "rejects"
                 THEN [nav EXCEPT !.signIn = outcome, !.error = <<"An error occurred">>, !.isLoading = FALSE]
                 ELSE IF outcome.user
                 THEN [nav EXCEPT !.signIn = outcome,
                                  !.session = TRUE,
                                  !.pending = TRUE,
                                  !.pathname = LoginTarget(nav.search),
                                  !.search = <<>>,
                                  !.user = FALSE,
                                  !.response = NoResponse,
                                  !.asked = LoginTarget(nav.search),
                                  !.redirected = FALSE,
                                  !.isLoading = FALSE]
                 ELSE [nav EXCEPT !.signIn = outcome, !.isLoading = FALSE]
    /\ UNCHANGED <<graph, dash, conc, bt, query>>
    /\ UNCHANGED pipeVars

---------------------------------------------------------------------------
(* Auth callback route: GET *)

\* the query strings of the callback requests: code, error, error_description
\* and next, each absent, empty or with a value
CallbackSearches ==
    {Optional("code", c) \o Optional("error", e) \o Optional("error_description", d)
        \o Optional("next", n) :
        c \in {Absent, <<>>, <<"c0de">>},
        e \in {Absent, <<>>, <<"access_denied">>},
        d \in {Absent, <<>>, <<"user denied access">>},
        n \in {Absent, <<>>, AboutPath, AuthCodeErrorPath}}

\* the x-forwarded-host header: null or a host
ForwardedHosts == {<<>>, <<"app.example">>}

ExchangeFailed(message) == [kind |-> "error", message |-> message, user |-> FALSE]
ExchangeDone(user) == [kind |-> "ok", message |-> <<>>, user |-> user]
ExchangeThrows == [kind |-> "throws", message |-> <<>>, user |-> FALSE]
\* the origin of the request URL
Origin == <<"origin">>

\* the ways exchangeCodeForSession may settle
ExchangeOutcomes ==
    {ExchangeFailed(<<"invalid grant">>), ExchangeDone(TRUE), ExchangeDone(FALSE),
     ExchangeThrows}

\* NextResponse.redirect(`${origin}/auth/auth-code-error?error=${encodeURIComponent(message)}`):
\* error is the value the target URL gives for its error parameter
ErrorRedirect(message) ==
    [kind |-> "redirect", base |-> Origin, pathname |-> AuthCodeErrorPath, error |-> message]

\* NextResponse.redirect(`${base}${next}`)
NextRedirect(base, next) ==
    [kind |-> "redirect", base |-> base, pathname |-> next, error |-> <<>>]

\* searchParams.get("next") ?? "/dashboard": only null gives the default
NextTarget(search) ==
    IF HasParam(search, "next") THEN GetParam(search, "next") ELSE DashboardPath

\* the handler waits for exchangeCodeForSession
Awaiting == [kind |-> "await"]

\* GET up to its first await: the response, or Awaiting
GETBegins(search) ==
    LET code == GetParam(search, "code")
        error == GetParam(search, "error")
        error_description == GetParam(search, "error_description")
    IN IF Truthy(error)
       THEN ErrorRedirect(IF Truthy(error_description) THEN error_description ELSE error)
       ELSE IF Truthy(code) THEN Awaiting
            ELSE ErrorRedirect(<<"No authentication code provided">>)

\* a faulty variant: a settled exchange without error is taken for a sign-in
GETResumesWithoutUserTest(search, forwardedHost, isLocalEnv, outcome) ==
    IF outcome.kind = "ok"
    THEN NextRedirect(IF ~isLocalEnv /\ Truthy(forwardedHost) THEN forwardedHost ELSE Origin,
                      NextTarget(search))
    ELSE ErrorRedirect(<<"An unexpected error occurred">>)

\* GET after exchangeCodeForSession has settled
GETResumes(search, forwardedHost, isLocalEnv, outcome) ==
    IF outcome.kind = "throws" THEN ErrorRedirect(<<"An unexpected error occurred">>)
    ELSE IF outcome.kind = "error" THEN ErrorRedirect(outcome.message)
    ELSE IF outcome.user
         THEN IF isLocalEnv THEN NextRedirect(Origin, NextTarget(search))
              ELSE IF Truthy(forwardedHost)
                   THEN NextRedirect(forwardedHost, NextTarget(search))
                   ELSE NextRedirect(Origin, NextTarget(search))
         ELSE ErrorRedirect(<<"No authentication code provided">>)

\* the callback route with no request
NewCallback ==
    [phase |-> "callback",
     pc |-> "idle",
     search |-> <<>>,
     forwardedHost |-> <<>>,
     isLocalEnv |-> FALSE,
     exchanged |-> FALSE,
     outcome |-> NoOutcome,
     response |-> NoResponse]

\* a request for /auth/callback arrives
CallbackRequest ==
    /\ nav.phase = "callback" /\ nav.pc = "idle"
    /\ \E search \in CallbackSearches, forwardedHost \in ForwardedHosts, isLocalEnv \in BOOLEAN :
          nav' = [NewCallback EXCEPT !.pc = "running", !.search = search,
                                     !.forwardedHost = forwardedHost,
                                     !.isLocalEnv = isLocalEnv]
    /\ UNCHANGED <<graph, dash, conc, bt, query>>
    /\ UNCHANGED pipeVars

\* the handler runs to its response or to the call of exchangeCodeForSession
CallbackBegins ==
    /\ nav.phase = "callback" /\ nav.pc = "running"
    /\ nav' = IF GETBegins(nav.search) = Awaiting
              THEN [nav EXCEPT !.pc = "exchanging", !.exchanged = TRUE]
              ELSE [nav EXCEPT !.pc = "answered", !.response = GETBegins(nav.search)]
    /\ UNCHANGED <<graph, dash, conc, bt, query>>
    /\ UNCHANGED pipeVars

\* exchangeCodeForSession settles and the handler runs to its response
ExchangeSettles ==
    /\ nav.phase = "callback" /\ nav.pc = "exchanging"
    /\ \E outcome \in ExchangeOutcomes :
          nav' = [nav EXCEPT !.pc = "answered", !.outcome = outcome,
                             !.response = GETResumes(nav.search, nav.forwardedHost,
                                                     nav.isLocalEnv, outcome)]
    /\ UNCHANGED <<graph, dash, conc, bt, query>>
    /\ UNCHANGED pipeVars

\* the response is sent
CallbackAnswered ==
    /\ nav.phase = "callback" /\ nav.pc = "answered"
    /\ nav' = NewCallback
    /\ UNCHANGED <<graph, dash, conc, bt, query>>
    /\ UNCHANGED pipeVars

---------------------------------------------------------------------------
(* Dashboard page: mount, health check and initial load *)

\* data.recipes of a response body that has no such field
Undefined == "undefined"

\* the recipe lists (by id) a response body may carry
DataPool == {Undefined, <<>>, <<1>>, <<1, 2>>}

\* data.recipes || []
RecipesOr(data) == IF data = Undefined THEN <<>> ELSE data

\* the backend as the page meets it: serving, unable to obtain the recipe
\* corpus, or not reachable
BackendStates == {"up", "storage_failure", "down"}

\* the outcomes of fetch('/api/health')
HealthOutcomes(backend) ==
    IF backend = "down" THEN {"rejected"} ELSE {"ok", "not_ok"}

\* the outcomes of fetch('/api/recipes/search?limit=12'): a backend that
\* cannot obtain the corpus reports the failure
SearchOutcomes(backend) ==
    IF backend = "down" THEN {"rejected"}
    ELSE IF backend = "storage_failure" THEN {"not_ok"}
    ELSE {"ok"}

\* the searches a page starts in one run
MaxSearches == 2

\* the texts an input field may hold when a search is asked for: nothing,
\* a blank, or a word
InputTexts == {<<>>, <<Space>>, <<Space, "c">>}

\* the bodies of an OK response of POST /api/recipes/suggest (recipe ids)
SuggestBodies == {<<>>, <<1>>}

\* who wrote the recipes on show: the initial value, a load, a failed load
\* or search, the fallback search, or the search request id
Shown(by, id) == [by |-> by, id |-> id]

\* a search request under way: fetching, or parsing the body of its response
Search(id, kind, stage) == [id |-> id, kind |-> kind, stage |-> stage]

\* DashboardPage before its effects run: the useState initial values
NewDashboard(backend) ==
    [phase |-> "created",
     backend |-> backend,
     user |-> FALSE,
     pushedLogin |-> FALSE,
     recipes |-> <<>>,
     loading |-> TRUE,
     searching |-> FALSE,
     backendConnected |-> FALSE,
     started |-> 0,
     pending |-> {},
     shown |-> Shown("initial", 0),
     auth |-> "idle",
     health |-> "idle",
     load |-> "idle"]

\* a faulty variant: a load that succeeds leaves the connection flag alone
LoadSucceededUnmarked(d, data) ==
    [d EXCEPT !.recipes = RecipesOr(data), !.shown = Shown("load", 0),
              !.loading = FALSE, !.load = "loaded"]

\* a faulty variant: the catch block leaves the connection flag as it was
LoadFailedStale(d) ==
    [d EXCEPT !.recipes = <<>>, !.shown = Shown("failed", 0), !.loading = FALSE,
              !.load = "failed"]

\* loadInitialRecipes, catch and finally
LoadFailed(d) ==
    [d EXCEPT !.recipes = <<>>, !.shown = Shown("failed", 0), !.backendConnected = FALSE,
              !.loading = FALSE, !.load = "failed"]

\* loadInitialRecipes, after response.json() and finally
LoadSucceeded(d, data) ==
    [d EXCEPT !.recipes = RecipesOr(data), !.shown = Shown("load", 0),
              !.backendConnected = TRUE, !.loading = FALSE, !.load = "loaded"]

\* a faulty variant: the input is tested as it is
IsEmptyText(text) == text = <<>>

\* !text.trim()
IsBlank(text) == Trim(text) = <<>>

\* setSearching(true) and the fetch of a search
StartSearch(d, kind) ==
    [d EXCEPT !.searching = TRUE,
              !.started = @ + 1,
              !.pending = @ \cup {Search(d.started + 1, kind, "fetching")}]

\* searchRecipesByIngredients up to its first await, or to its end when it
\* awaits nothing (getSampleRecipes() is [], so the fallback finds nothing);
\* the toasts of the page are left out
searchRecipesByIngredients(d, ingredients) ==
    IF IsBlank(ingredients) THEN d
    ELSE IF d.backendConnected THEN StartSearch(d, "ingredients")
    ELSE [d EXCEPT !.recipes = <<>>, !.shown = Shown("fallback", 0), !.searching = FALSE]

\* searchRecipesByQuery up to its first await
searchRecipesByQuery(d, searchQuery) ==
    IF IsBlank(searchQuery) THEN d ELSE StartSearch(d, "query")

\* a faulty variant: the finally block is left out
SearchEndsBusy(d, s) == [d EXCEPT !.pending = @ \ {s}]

\* finally: setSearching(false)
SearchEnds(d, s) == [d EXCEPT !.pending = @ \ {s}, !.searching = FALSE]

\* a search whose response is not OK
SearchNotOk(d, s) ==
    IF s.kind = "ingredients" THEN SearchEnds(d, s)
    ELSE SearchEnds([d EXCEPT !.recipes = <<>>, !.shown = Shown("failed", s.id)], s)

\* a search whose fetch or response.json() throws: the catch block
SearchThrows(d, s) ==
    IF s.kind = "ingredients" THEN SearchEnds(d, s)
    ELSE SearchEnds([d EXCEPT !.recipes = <<>>, !.shown = Shown("failed", s.id)], s)

\* a search whose response is OK, after response.json() gave the body
SearchSucceeded(d, s, body) ==
    LET found == IF s.kind = "ingredients" THEN body ELSE RecipesOr(body)
    IN SearchEnds([d EXCEPT !.recipes = found, !.shown = Shown("search", s.id)], s)

\* the page shows its inputs and buttons (not the loading text)
PageShown == dash.phase = "mounted" /\ ~dash.loading

\* Enter in the ingredients input, or the Find Recipes button (disabled
\* while searching), with the text the input holds
SearchByIngredients ==
    /\ PageShown
    /\ dash.started < MaxSearches
    /\ \E ingredients \in InputTexts : dash' = searchRecipesByIngredients(dash, ingredients)
    /\ UNCHANGED <<graph, nav, conc, bt, query>>
    /\ UNCHANGED pipeVars

\* Enter in the recipe name input, or the Search button (disabled while
\* searching), with the text the input holds
SearchByQuery ==
    /\ PageShown
    /\ dash.started < MaxSearches
    /\ \E searchQuery \in InputTexts : dash' = searchRecipesByQuery(dash, searchQuery)
    /\ UNCHANGED <<graph, nav, conc, bt, query>>
    /\ UNCHANGED pipeVars

\* the fetch of a search settles
SearchResponds ==
    /\ dash.phase = "mounted"
    /\ \E s \in dash.pending :
          /\ s.stage = "fetching"
          /\ \E outcome \in SearchOutcomes(dash.backend) :
                dash' = IF outcome = "ok"
                        THEN [dash EXCEPT !.pending =
                                 (@ \ {s}) \cup {Search(s.id, s.kind, "parsing")}]
                        ELSE IF outcome = "not_ok" THEN SearchNotOk(dash, s)
                        ELSE SearchThrows(dash, s)
    /\ UNCHANGED <<graph, nav, conc, bt, query>>
    /\ UNCHANGED pipeVars

\* response.json() of a search gives the body or throws
SearchParses ==
    /\ dash.phase = "mounted"
    /\ \E s \in dash.pending :
          /\ s.stage = "parsing"
          /\ \/ \E body \in (IF s.kind = "ingredients" THEN SuggestBodies ELSE DataPool) :
                   dash' = SearchSucceeded(dash, s, body)
             \/ dash' = SearchThrows(dash, s)
    /\ UNCHANGED <<graph, nav, conc, bt, query>>
    /\ UNCHANGED pipeVars

\* the Reset button, shown with a non-empty recipe list: loadInitialRecipes
Reset ==
    /\ PageShown
    /\ dash.recipes # <<>>
    /\ dash.load \in {"loaded", "failed"}
    /\ dash' = [dash EXCEPT !.load = "fetching", !.loading = TRUE]
    /\ UNCHANGED <<graph, nav, conc, bt, query>>
    /\ UNCHANGED pipeVars

\* useEffect: checkAuth(), checkBackendConnection() and loadInitialRecipes()
\* each run up to their first await
Mount ==
    /\ dash.phase = "created"
    /\ dash' = [dash EXCEPT !.phase = "mounted", !.auth = "pending",
                            !.health = "fetching", !.load = "fetching",
                            !.loading = TRUE]
    /\ UNCHANGED <<graph, nav, conc, bt, query>>
    /\ UNCHANGED pipeVars

\* checkAuth after supabase.auth.getUser()
CheckAuthSettles ==
    /\ dash.phase = "mounted" /\ dash.auth = "pending"
    /\ \E user \in BOOLEAN :
          dash' = IF user
                  THEN [dash EXCEPT !.auth = "done", !.user = TRUE]
                  ELSE [dash EXCEPT !.auth = "done", !.pushedLogin = TRUE]
    /\ UNCHANGED <<graph, nav, conc, bt, query>>
    /\ UNCHANGED pipeVars

\* checkBackendConnection after fetch('/api/health')
HealthSettles ==
    /\ dash.phase = "mounted" /\ dash.health = "fetching"
    /\ \E outcome \in HealthOutcomes(dash.backend) :
          dash' = IF outcome = "ok"
                  THEN [dash EXCEPT !.health = "ok", !.backendConnected = TRUE]
                  ELSE [dash EXCEPT !.health = "failed", !.backendConnected = FALSE]
    /\ UNCHANGED <<graph, nav, conc, bt, query>>
    /\ UNCHANGED pipeVars

\* loadInitialRecipes after fetch('/api/recipes/search?limit=12')
LoadResponds ==
    /\ dash.phase = "mounted" /\ dash.load = "fetching"
    /\ \E outcome \in SearchOutcomes(dash.backend) :
          dash' = IF outcome = "ok"
                  THEN [dash EXCEPT !.load = "parsing"]
                  ELSE LoadFailed(dash)
    /\ UNCHANGED <<graph, nav, conc, bt, query>>
    /\ UNCHANGED pipeVars

\* loadInitialRecipes after response.json(), which gives the body or throws
LoadParses ==
    /\ dash.phase = "mounted" /\ dash.load = "parsing"
    /\ \/ \E data \in DataPool : dash' = LoadSucceeded(dash, data)
       \/ dash' = LoadFailed(dash)
    /\ UNCHANGED <<graph, nav, conc, bt, query>>
    /\ UNCHANGED pipeVars

\* the backend goes down, loses its storage or recovers
BackendChanges ==
    /\ dash.phase = "mounted"
    /\ \E backend \in BackendStates \ {dash.backend} :
          dash' = [dash EXCEPT !.backend = backend]
    /\ UNCHANGED <<graph, nav, conc, bt, query>>
    /\ UNCHANGED pipeVars

---------------------------------------------------------------------------
(* Graph queries: the similarity and substitutions contracts *)

NoAnswer == [asked |-> FALSE]

\* the last similarity query and the last substitutions query, with answers
NoQuery ==
    [similarity |-> NoAnswer, substitutions |-> NoAnswer, gap |-> NoAnswer,
     filter |-> NoAnswer]

QueryIdle == query = NoQuery

\* similarity(a, b) is asked of the graph (the model's client asks once)
QuerySimilarity ==
    /\ ~query.similarity.asked
    /\ \E a \in Names, b \in Names :
          query' = [query EXCEPT !.similarity =
                       [asked |-> TRUE, a |-> a, b |-> b,
                        result |-> similarity(graph, a, b)]]
    /\ UNCHANGED <<graph, nav, dash, conc, bt>>
    /\ UNCHANGED pipeVars

\* GET /api/ingredients/substitutions/{ingredient}?limit=N
QuerySubstitutions ==
    /\ ~query.substitutions.asked
    /\ \E x \in Names, limit \in 1..MaxLimit :
          query' = [query EXCEPT !.substitutions =
                       [asked |-> TRUE, ingredient |-> x, limit |-> limit,
                        result |-> substitutions(graph, x, limit)]]
    /\ UNCHANGED <<graph, nav, dash, conc, bt>>
    /\ UNCHANGED pipeVars

\* POST /api/ingredients/gap-analysis {available_ingredients, target_recipe_id}
AnalyzeGaps ==
    /\ ~query.gap.asked
    /\ \E raw \in SUBSET RawNames, target \in corpus :
          /\ Cardinality(raw) <= MaxAvail
          /\ LET available == {Normalize(x) : x \in raw}
             IN query' = [query EXCEPT !.gap =
                             [asked |-> TRUE, target_recipe_id |-> target.id,
                              available_ingredients |-> available,
                              result |-> analyze_gaps(graph, target, available)]]
    /\ UNCHANGED <<graph, nav, dash, conc, bt>>
    /\ UNCHANGED pipeVars

\* the client asks for another analysis
GapReset ==
    /\ query.gap.asked
    /\ query' = [query EXCEPT !.gap = NoAnswer]
    /\ UNCHANGED <<graph, nav, dash, conc, bt>>
    /\ UNCHANGED pipeVars

\* the recipes the filter is run over: the pool and two recipes whose scores
\* tie at different match ratios
FilterPool ==
    RecipePool \cup {Recipe(6, <<chicken, basil>>, "asian", {"gluten-free"}),
                     Recipe(7, <<chicken, tofu, tomato, onion, garlic>>, "asian", {})}

\* a corpus with one recipe more than the filter hands on, of recipes whose
\* scores tie at two match ratios
LargeCorpus ==
    [i \in 1..(TopCandidates + 1) |->
        Recipe(100 + i,
               IF i % 2 = 0 THEN <<chicken, basil>>
               ELSE <<chicken, tofu, tomato, onion, garlic>>,
               "italian", {"gluten-free"})]

Reverse(list) == [i \in 1..Len(list) |-> list[Len(list) + 1 - i]]

\* the orders in which storage may hand over the set S of recipes
Orders(S) ==
    {list \in [1..Cardinality(S) -> S] : \A i, j \in 1..Cardinality(S) :
                                            i # j => list[i] # list[j]}

\* the list is in ascending or in descending order of recipe id
Monotone(list) ==
    \/ \A i, j \in 1..Len(list) : i < j => list[i].id < list[j].id
    \/ \A i, j \in 1..Len(list) : i < j => list[i].id > list[j].id

\* the corpora the filter is run over, as lists
FilterCorpora ==
    UNION {{list \in Orders(S) : Monotone(list)} :
              S \in {T \in SUBSET FilterPool : Cardinality(T) = MaxCorpus}}
        \cup {LargeCorpus, Reverse(LargeCorpus)}

\* the requests the filter is run for
FilterRequests ==
    {ParseRequest(raw, restrictions, cuisine, MaxRecipes) :
        raw \in {{}, {onion}, {chicken, tomato, onion},
                 {tofu, <<"G","A"," ">>, tomato, onion}},
        restrictions \in {{}, {"vegan"}},
        cuisine \in Cuisines}

\* CandidateFilter is run over a corpus for a request
AskFilter ==
    /\ ~query.filter.asked
    /\ \E recipes \in FilterCorpora, req \in FilterRequests :
          query' = [query EXCEPT !.filter =
                       [asked |-> TRUE, recipes |-> recipes, request |-> req,
                        result |-> CandidateFilter(recipes, req)]]
    /\ UNCHANGED <<graph, nav, dash, conc, bt>>
    /\ UNCHANGED pipeVars

\* the filter is run again
FilterReset ==
    /\ query.filter.asked
    /\ query' = [query EXCEPT !.filter = NoAnswer]
    /\ UNCHANGED <<graph, nav, dash, conc, bt>>
    /\ UNCHANGED pipeVars

---------------------------------------------------------------------------
(* Specifications *)

BtIdle == bt = [phase |-> "idle"]

\* the suggestion service: the graph is built and the corpus loaded at start
Init ==
    /\ graph \in GraphPool
    /\ NavIdle
    /\ DashIdle
    /\ ConcIdle
    /\ corpus \in {c \in SUBSET RecipePool : Cardinality(c) <= MaxCorpus}
    /\ PipeIdle
    /\ BtIdle
    /\ QueryIdle

Next == Receive \/ ScoreAll \/ HardFilter \/ Select \/ Enrich \/ Respond \/ Finish

Spec == Init /\ [][Next]_vars

\* the suggestion service over a corpus whose recipes all require an
\* ingredient: no request fails in the scoring pass, every one is enriched
EnrichInit ==
    /\ graph \in GraphPool
    /\ NavIdle
    /\ DashIdle
    /\ ConcIdle
    /\ corpus \in {c \in SUBSET RecipePool :
                      Cardinality(c) <= MaxCorpus /\ ~ScoreRaises(c)}
    /\ PipeIdle
    /\ BtIdle
    /\ QueryIdle

EnrichSpec == EnrichInit /\ [][Next]_vars

\* the graph service answering queries
GraphInit ==
    /\ graph \in GraphPool
    /\ NavIdle
    /\ DashIdle
    /\ ConcIdle
    /\ corpus = {}
    /\ PipeIdle
    /\ BtIdle
    /\ QueryIdle

GraphNext == QuerySimilarity \/ QuerySubstitutions

GraphSpec == GraphInit /\ [][GraphNext]_vars

\* the gap analysis service
GapInit ==
    /\ graph \in GraphPool
    /\ NavIdle
    /\ DashIdle
    /\ ConcIdle
    /\ corpus \in {c \in SUBSET RecipePool : Cardinality(c) = MaxCorpus}
    /\ PipeIdle
    /\ BtIdle
    /\ QueryIdle

GapNext == AnalyzeGaps \/ GapReset

GapSpec == GapInit /\ [][GapNext]_vars

\* CandidateFilter as a function of the corpus list and the request
FilterInit ==
    /\ graph = GraphEmpty
    /\ NavIdle
    /\ DashIdle
    /\ ConcIdle
    /\ corpus = {}
    /\ PipeIdle
    /\ BtIdle
    /\ QueryIdle

FilterNext == AskFilter \/ FilterReset

FilterSpec == FilterInit /\ [][FilterNext]_vars

\* the optimizer given a candidate list
OptInit ==
    /\ graph \in {GraphRich, GraphEmpty}
    /\ NavIdle
    /\ DashIdle
    /\ ConcIdle
    /\ corpus = {}
    /\ PipeIdle
    /\ QueryIdle
    /\ \E raw \in SUBSET RawNames, recipes \in SUBSET RecipePool :
          /\ Cardinality(raw) <= MaxAvail
          /\ Cardinality(recipes) <= MaxCorpus
          /\ ~ScoreRaises(recipes)
          /\ bt = NewSearch(CandidateList(graph, recipes,
                                          ParseRequest(raw, {}, NoCuisine, MaxRecipes)))

OptNext ==
    \/ BtStart \/ BtBase \/ BtPrune \/ BtDominated \/ BtInclude
    \/ BtSkipViolating \/ BtBacktrack \/ BtReturn \/ BtFinish
    \/ BtOutOfSteps \/ BtPastDeadline

OptSpec == OptInit /\ [][OptNext]_vars

\* the search is a sequential computation: it keeps running until it returns
FairOptSpec == OptSpec /\ WF_vars(OptNext)

\* the web application's middleware serving a browser
AuthInit ==
    /\ graph = GraphEmpty
    /\ corpus = {}
    /\ PipeIdle
    /\ BtIdle
    /\ QueryIdle
    /\ nav = NewBrowser
    /\ DashIdle
    /\ ConcIdle

AuthNext ==
    \/ Navigate \/ UpdateSession \/ Deliver \/ SessionChange
    \/ HandleLogin \/ SignInSettles

AuthSpec == AuthInit /\ [][AuthNext]_vars

\* the auth callback route
CallbackInit ==
    /\ graph = GraphEmpty
    /\ corpus = {}
    /\ PipeIdle
    /\ BtIdle
    /\ QueryIdle
    /\ nav = NewCallback
    /\ DashIdle
    /\ ConcIdle

CallbackNext == CallbackRequest \/ CallbackBegins \/ ExchangeSettles \/ CallbackAnswered

CallbackSpec == CallbackInit /\ [][CallbackNext]_vars

\* the dashboard page in a browser, talking to the backend
DashInit ==
    /\ graph = GraphEmpty
    /\ corpus = {}
    /\ PipeIdle
    /\ BtIdle
    /\ QueryIdle
    /\ NavIdle
    /\ ConcIdle
    /\ \E backend \in BackendStates : dash = NewDashboard(backend)

DashNext ==
    \/ Mount \/ CheckAuthSettles \/ HealthSettles \/ LoadResponds \/ LoadParses
    \/ BackendChanges
    \/ SearchByIngredients \/ SearchByQuery
    \/ SearchResponds \/ SearchParses \/ Reset

DashSpec == DashInit /\ [][DashNext]_vars

\* one page of the application in a browser: the dashboard or the login page
BusyInit ==
    /\ graph = GraphEmpty
    /\ corpus = {}
    /\ PipeIdle
    /\ BtIdle
    /\ QueryIdle
    /\ ConcIdle
    /\ \/ NavIdle /\ \E backend \in BackendStates : dash = NewDashboard(backend)
       \/ DashIdle /\ \E search \in SearchPool : nav = LoginPageShown(search)

\* the steps of the page on show that raise, lower or depend on a busy flag
BusyNext ==
    \/ Mount \/ HealthSettles \/ LoadResponds \/ LoadParses \/ Reset
    \/ SearchByIngredients \/ SearchByQuery \/ SearchResponds \/ SearchParses
    \/ HandleLogin \/ SignInSettles

BusySpec == BusyInit /\ [][BusyNext]_vars

\* every call the pages wait for settles
FairBusySpec ==
    /\ BusySpec
    /\ WF_vars(Mount)
    /\ WF_vars(LoadResponds) /\ WF_vars(LoadParses)
    /\ WF_vars(SearchResponds) /\ WF_vars(SearchParses)
    /\ WF_vars(SignInSettles)

\* the service handling several suggestion requests at once
ConcInit ==
    /\ graph \in {GraphRich, GraphEmpty}
    /\ corpus \in {c \in SUBSET RecipePool : Cardinality(c) = MaxCorpus}
    /\ PipeIdle
    /\ BtIdle
    /\ QueryIdle
    /\ NavIdle
    /\ DashIdle
    /\ conc = NewService

ConcNext ==
    \E w \in Workers :
        \/ ConcReceive(w) \/ ConcScore(w) \/ ConcFilter(w) \/ ConcSelect(w)
        \/ ConcEnrich(w) \/ ConcRespond(w) \/ ConcFinish(w)

ConcSpec == ConcInit /\ [][ConcNext]_vars

---------------------------------------------------------------------------
(* Properties of the suggestion pipeline *)

ResponseIds == {response[i].id : i \in 1..Len(response)}

ViolatingIds == {r.id : r \in {x \in corpus : Violates(x, request.dietary_restrictions)}}

C2_MatchScoreInUnitInterval ==
    /\ \A i \in 1..Len(response) :
          QLe(QZero, response[i].match_score) /\ QLe(response[i].match_score, QOne)
    /\ \A id \in DOMAIN enriched :
          QLe(QZero, enriched[id].match_score) /\ QLe(enriched[id].match_score, QOne)

\* a returned recipe whose score lies strictly inside (0,1) and above its
\* match_ratio: substitution credit was added
C2_Witness ==
    /\ pc = "done"
    /\ \E i \in 1..Len(response) :
          /\ QLt(QZero, response[i].match_score)
          /\ QLt(response[i].match_score, QOne)
          /\ QLt(scored[response[i].id].match_ratio, response[i].match_score)

\* the normalized names a stored recipe requires, whatever their order
RequiredNames(id) ==
    {Normalize(n) : n \in Range(RecipeById(id).ingredients)}

QualifyingIds ==
    {r.id : r \in {x \in corpus :
        /\ ~Violates(x, request.dietary_restrictions)
        /\ recipe_ingredients(x) \cap request.available_ingredients # {}}}

\* C4: the response is sorted by final score descending and truncated to
\* max_recipes: it never has more entries, it has exactly max_recipes when at
\* least that many candidates qualify, and no candidate left out scores
\* higher than one that is returned.
C4_SortedAndTruncated ==
    /\ Len(response) <= request.max_recipes
    /\ \A i, j \in 1..Len(response) :
          i < j => QLe(response[j].match_score, response[i].match_score)
    /\ pc = "done" =>
          /\ Len(response) =
                Min(request.max_recipes, Min(Cardinality(QualifyingIds), TopCandidates))
          /\ ResponseIds \subseteq QualifyingIds
          /\ \A id \in Range(candidates) \ ResponseIds : \A i \in 1..Len(response) :
                QLe(enriched[id].match_score, response[i].match_score)

\* more candidates qualify than were asked for, and the response holds
\* exactly max_recipes entries in strictly descending order
C4_Witness ==
    /\ pc = "done"
    /\ request.max_recipes >= 2
    /\ Cardinality(QualifyingIds) > request.max_recipes
    /\ Len(response) = request.max_recipes
    /\ QLt(response[2].match_score, response[1].match_score)

\* the request was scored with an empty available set
EmptyAvailableScored ==
    request.available_ingredients = {} /\ pc \notin {"idle", "score"}

\* C5 as stated: with an empty available set every recipe is scored 0 and
\* filtered out, and the result set is empty, which is not a fault.
C5_EveryRecipeScoredZero ==
    EmptyAvailableScored =>
        /\ pc # "failed"
        /\ \A id \in DOMAIN scored : QEq(scored[id].score, QZero)
        /\ eligible = {}
        /\ candidates = <<>>
        /\ response = <<>>

\* C5 over a corpus whose recipes all require an ingredient: with an empty
\* available set every recipe has match_ratio 0 (its greedy score is -10 for
\* each required ingredient, plus the cuisine bonus when it applies, not 0)
\* and is filtered out before candidate selection; the pipeline completes
\* with an empty result set.
C5_EmptyAvailableEmptyResult ==
    (EmptyAvailableScored /\ ~ScoreRaises(corpus)) =>
        /\ DOMAIN scored = {r.id : r \in corpus}
        /\ \A id \in DOMAIN scored :
              /\ QEq(scored[id].match_ratio, QZero)
              /\ QEq(scored[id].score,
                     QInt(cuisine_bonus(RecipeById(id), request)
                            - 10 * Cardinality(RequiredNames(id))))
        /\ eligible = {}
        /\ candidates = <<>>
        /\ enriched = Empty
        /\ response = <<>>

\* a request without ingredients or restrictions over a non-empty corpus
\* ran to completion and returned nothing
C5_Witness ==
    /\ pc = "done"
    /\ corpus # {}
    /\ request.available_ingredients = {}
    /\ request.dietary_restrictions = {}
    /\ response = <<>>

\* C10: adding one more ingredient to the available set never decreases the
\* match_ratio the filter computed for a recipe.
C10_MatchRatioMonotonic ==
    \A id \in DOMAIN scored :
        LET required == recipe_ingredients(RecipeById(id))
        IN \A x \in Names :
              QLe(scored[id].match_ratio,
                  match_ratio(required, request.available_ingredients \cup {x}))

\* a recipe was scored with a ratio strictly between 0 and 1; one added
\* ingredient raises its ratio and another leaves it unchanged
C10_Witness ==
    \E id \in DOMAIN scored :
        LET required == recipe_ingredients(RecipeById(id))
        IN /\ QLt(QZero, scored[id].match_ratio)
           /\ \E x \in Names \ request.available_ingredients :
                 QLt(scored[id].match_ratio,
                     match_ratio(required, request.available_ingredients \cup {x}))
           /\ \E x \in Names \ request.available_ingredients :
                 QEq(scored[id].match_ratio,
                     match_ratio(required, request.available_ingredients \cup {x}))

\* the substitution edges of g between m and s
SubstitutionEdges(g, m, s) ==
    {e \in EdgesBetween(g, m, s) : e.kind = SubstitutionKind}

Unclamped(id) == AdjustedScore(graph, RecipeById(id), request.available_ingredients)

\* the adjusted score lies between the match ratio and 1, the clamp gives it
\* back, and it is the match_score
ClampKeeps(ratio, adjusted, match_score) ==
    /\ QLe(ratio, adjusted)
    /\ QLe(adjusted, QOne)
    /\ Clamp01(adjusted) = adjusted
    /\ match_score = adjusted

\* C30: for every candidate recipe with a non-empty required list the
\* adjusted score is at least match_ratio and at most 1 before clamping, so
\* the clamp to [0,1] never changes the value.
C30_ClampChangesNothing ==
    \A id \in DOMAIN enriched :
        recipe_ingredients(RecipeById(id)) # {}
            => ClampKeeps(MatchRatio(RecipeById(id), request.available_ingredients),
                          Unclamped(id), enriched[id].match_score)

\* an enriched candidate gained from a substitution and stays below 1
C30_Witness ==
    /\ pc = "respond"
    /\ \E id \in DOMAIN enriched :
          /\ QLt(MatchRatio(RecipeById(id), request.available_ingredients),
                 enriched[id].match_score)
          /\ QLt(enriched[id].match_score, QOne)

\* an enriched candidate with nothing missing scores exactly 1
C30_FullMatchWitness ==
    /\ pc = "respond"
    /\ \E id \in DOMAIN enriched :
          /\ enriched[id].missing_ingredients = {}
          /\ QEq(enriched[id].match_score, QOne)

\* the recipes of the corpus whose required-ingredient list is empty
EmptyRecipes == {r \in corpus : recipe_ingredients(r) = {}}

\* C20: a recipe whose required-ingredient list is empty is given match_ratio
\* 0, no division by zero occurs, and the recipe is not in the candidate set
\* of any request.
C20_EmptyRecipeExcluded ==
    /\ pc # "failed"
    /\ pc \in {"filter", "select", "enrich", "respond", "done"}
          => \A r \in EmptyRecipes :
                 /\ QEq(scored[r.id].match_ratio, QZero)
                 /\ r.id \notin eligible
                 /\ r.id \notin Range(candidates)

\* a request is scored over a corpus that holds a recipe with no ingredient
C20_Witness ==
    /\ EmptyRecipes # {}
    /\ pc \notin {"idle", "score"}
    /\ request.available_ingredients # {}

---------------------------------------------------------------------------
(* Properties of the graph queries *)

RECURSIVE Reach(_, _)
\* the nodes joined to a node of seen by edges of any kind
Reach(g, seen) ==
    LET more == seen \cup {v \in g.nodes : \E u \in seen : EdgesBetween(g, u, v) # {}}
    IN IF more = seen THEN seen ELSE Reach(g, more)

\* no edge of substitution kind touches x
NoSubstitutionRelation(g, x) ==
    \A e \in g.edges : e.kind = SubstitutionKind => (e.a # x /\ e.b # x)

C9_DisconnectedGivesEmpty ==
    /\ (/\ query.similarity.asked
        /\ query.similarity.a # query.similarity.b
        /\ query.similarity.b \notin Reach(graph, {query.similarity.a}))
          => query.similarity.result = QZero
    /\ (/\ query.substitutions.asked
        /\ NoSubstitutionRelation(graph, query.substitutions.ingredient))
          => query.substitutions.result = <<>>

\* the substitution-kind neighbours of the queried ingredient
AskedDirect == Neighbors(graph, query.substitutions.ingredient, {SubstitutionKind})

\* the weight, in hundredths, of the substitution edge to the neighbour v
AskedWeight(v) ==
    WeightOne * MaxWeight(graph, query.substitutions.ingredient, v, {SubstitutionKind})

\* the products of the two edge weights of the 2-hop paths from the queried
\* ingredient to v
AskedProducts(v) ==
    {MaxWeight(graph, query.substitutions.ingredient, n, AllKinds)
        * MaxWeight(graph, n, v, AllKinds) :
        n \in {m \in Neighbors(graph, query.substitutions.ingredient, AllKinds) :
                  v \in Neighbors(graph, m, AllKinds)}}

\* the 2-hop paths are walked when the direct neighbours are fewer than limit
AskedExtended == Cardinality(AskedDirect) < query.substitutions.limit

\* the scores under which the candidate v was collected
AskedScores(v) ==
    (IF v \in AskedDirect THEN {AskedWeight(v)} ELSE {})
        \cup (IF AskedExtended THEN AskedProducts(v) ELSE {})

---------------------------------------------------------------------------
(* Properties of the backtracking optimizer (OptSpec, FairOptSpec) *)

\* the candidate of the search with the given id
BtCandidate(id) ==
    bt.recipes[CHOOSE i \in 1..Len(bt.recipes) : bt.recipes[i].id = id]

\* the candidates of the list that violate a hard dietary restriction
BtViolators ==
    {i \in 1..Len(bt.recipes) : Violates(bt.recipes[i], bt.dietary_restrictions)}

\* the combination has at most max_recipes members and none of them violates
\* a hard dietary restriction
Admissible(combination) ==
    /\ Len(combination) <= bt.max_recipes
    /\ \A i \in 1..Len(combination) :
          ~Violates(BtCandidate(combination[i]), bt.dietary_restrictions)

\* C6: at every point of the search the best-so-far combination, and at the
\* end the returned combination, has at most max_recipes recipes and contains
\* no recipe that violates a hard dietary restriction.
C6_BestCombinationAdmissible ==
    /\ Admissible(bt.best_combination)
    /\ Admissible(bt.result)

\* in the middle of a search over a list that holds a violating candidate and
\* more candidates than the maximum, a full best combination is recorded
C6_Witness ==
    /\ bt.phase = "running"
    /\ bt.stack # <<>>
    /\ bt.recorded
    /\ Len(bt.best_combination) = bt.max_recipes
    /\ Len(bt.recipes) > bt.max_recipes
    /\ BtViolators # {}
    /\ \E i \in BtViolators : \A j \in 1..Len(bt.best_combination) :
          bt.recipes[i].score > BtCandidate(bt.best_combination[j]).score

\* a step that makes a recursive call of backtrack
IsRecursiveCall ==
    /\ bt.phase = "running"
    /\ bt.stack # <<>>
    /\ bt'.backtracking_calls > bt.backtracking_calls

BeyondStepBudget ==
    /\ bt.phase = "running"
    /\ bt.stack # <<>>
    /\ bt.stack[Len(bt.stack)].stage = "call"
    /\ bt.budget.kind = "steps"
    /\ bt.backtracking_calls > bt.budget.steps

RECURSIVE Exhaustive(_, _, _, _)
\* the best score the include/skip search reaches from a call of backtrack
\* when no branch is pruned: the running score at a base case, else the
\* better of the two choices, inclusion being open to admissible recipes only
Exhaustive(index, size, used, score) ==
    IF BaseCase(size, index, bt.max_recipes, Len(bt.recipes))
    THEN score
    ELSE LET recipe == bt.recipes[index]
             skip == Exhaustive(NextIndex(index), size, used, score)
         IN IF constraint_satisfied(recipe, bt.dietary_restrictions)
            THEN Max(Exhaustive(NextIndex(index), size + 1,
                                used \cup recipe.ingredients,
                                score + additional_score(recipe, used)),
                     skip)
            ELSE skip

\* the best combination score of the exhaustive search; as in the search, a
\* combination counts only when it beats the initial best score 0
ExhaustiveBest == Max(0, Exhaustive(1, 0, {}, 0))

\* C17: the score of the combination a search without budget returns equals
\* the best combination score of the exhaustive include/skip search.
C17_PruningKeepsTheOptimum ==
    (bt.phase = "done" /\ ~bt.partial) => bt.best_score = ExhaustiveBest

\* a completed search pruned a branch and returned a combination
C17_Witness ==
    /\ bt.phase = "done"
    /\ ~bt.partial
    /\ bt.result # <<>>
    /\ bt.backtracking_calls < 2 ^ Len(bt.recipes)

---------------------------------------------------------------------------
(* Properties of the session middleware (AuthSpec) *)

\* the middleware answered a request for a path under /dashboard or
\* /protected for which getUser() returned no user
UnauthenticatedProtected ==
    /\ nav.pending
    /\ nav.response # NoResponse
    /\ ~nav.user
    /\ \/ StartsWith(nav.pathname, DashboardPath)
       \/ StartsWith(nav.pathname, ProtectedPath)

\* C12: a request for a path that starts with /dashboard or /protected and
\* carries no authenticated user is answered with a redirect to /auth/login
\* whose redirectedFrom parameter is the original path, never with the
\* pass-through response.
C12_UnauthenticatedRedirected ==
    UnauthenticatedProtected
        => /\ nav.response.kind = "redirect"
           /\ nav.response.pathname = LoginPath
           /\ GetParam(nav.response.search, "redirectedFrom") = nav.pathname

\* a request for /dashboard/settings that already carried a redirectedFrom
\* parameter, sent with session cookies for which getUser() returned no
\* user, was redirected
C12_Witness ==
    /\ UnauthenticatedProtected
    /\ nav.session
    /\ nav.pathname = DashboardPath \o <<"/", "settings">>
    /\ GetParam(nav.search, "redirectedFrom") = AboutPath
    /\ nav.response.kind = "redirect"

\* the request being served asks for /, for /about or for a path that starts
\* with one of the five auth routes
OpenPathAsked ==
    /\ nav.pending
    /\ \/ nav.pathname \in {RootPath, AboutPath}
       \/ \E route \in {LoginPath, SignUpPath, SignUpSuccessPath, CallbackPath,
                         AuthCodeErrorPath} : StartsWith(nav.pathname, route)

\* C23: a request whose path starts with one of the auth routes, or is
\* exactly / or /about, is never redirected: it gets the pass-through
\* response with or without a user; and the request a redirect sends the
\* browser to is such a request, so the login redirect cannot loop.
C23_OpenRoutesPassThrough ==
    /\ (OpenPathAsked /\ nav.response # NoResponse) => nav.response = PassThrough
    /\ OpenPathAsked
          => \A user \in BOOLEAN :
                updateSession(nav.pathname, nav.search, user) = PassThrough
    /\ nav.response.kind = "redirect"
          => \A user \in BOOLEAN :
                updateSession(nav.response.pathname, nav.response.search, user)
                    = PassThrough

\* the browser followed the redirect away from /dashboard, and its request
\* for /auth/login, still without a user, was passed through
C23_Witness ==
    /\ OpenPathAsked
    /\ nav.pathname = LoginPath
    /\ GetParam(nav.search, "redirectedFrom") = DashboardPath
    /\ ~nav.user
    /\ nav.response = PassThrough

\* the step in which signInWithPassword settles and handleLogin ends
LoginSettles == nav.phase = "browsing" /\ nav.isLoading /\ ~nav'.isLoading

\* the login page on show was reached through the middleware's redirect of
\* a request for the path asked
RedirectedToLogin == nav.redirected /\ nav.location = LoginPath

\* C25: when the middleware redirected an unauthenticated request for the
\* protected path P to /auth/login?redirectedFrom=P and the sign-in then
\* succeeds, handleLogin navigates to P; with no redirectedFrom parameter it
\* navigates to /dashboard; on a sign-in error nothing is navigated to and
\* the error message is shown.
C25_LoginRoundTrip ==
    [][LoginSettles =>
          /\ (nav'.signIn = SignInData(TRUE) /\ RedirectedToLogin)
                => (nav'.pending /\ nav'.pathname = nav.asked)
          /\ (nav'.signIn = SignInData(TRUE) /\ ~HasParam(nav.search, "redirectedFrom"))
                => (nav'.pending /\ nav'.pathname = DashboardPath)
          /\ nav'.signIn.kind \in {"error", "rejects"}
                => /\ ~nav'.pending
                   /\ nav'.location = nav.location
                   /\ Truthy(nav'.error) /\ nav'.error # Null]_vars

\* after the redirect away from /dashboard/settings the sign-in succeeded
\* and the browser asks for /dashboard/settings again, now with a session
C25_Witness ==
    /\ nav.phase = "browsing"
    /\ nav.signIn = SignInData(TRUE)
    /\ nav.location = LoginPath
    /\ nav.pending /\ nav.response = NoResponse /\ ~nav.redirected
    /\ nav.pathname = DashboardPath \o <<"/", "settings">>
    /\ nav.session

\* a sign-in failed: the login page shows the message
C25_ErrorWitness ==
    /\ nav.phase = "browsing"
    /\ nav.signIn.kind = "error"
    /\ nav.location = LoginPath /\ ~nav.pending
    /\ nav.error = <<"Invalid login credentials">>

---------------------------------------------------------------------------
(* Properties of the auth callback route (CallbackSpec) *)

\* the response sends the browser to the next target
ToNextTarget ==
    /\ nav.response.kind = "redirect"
    /\ nav.response.pathname = NextTarget(nav.search)
    /\ nav.response.error = <<>>

\* the response sends the browser to /auth/auth-code-error with an error
ToAuthCodeError ==
    /\ nav.response.kind = "redirect"
    /\ nav.response.pathname = AuthCodeErrorPath
    /\ nav.response.error # <<>>

\* what C24 says of every request but one with an error parameter
CallbackRedirects ==
    nav.pc = "answered"
        => /\ nav.response.kind = "redirect"
           /\ ToNextTarget => (nav.exchanged /\ nav.outcome = ExchangeDone(TRUE))
           /\ ~HasParam(nav.search, "code") => ToAuthCodeError
           /\ (nav.exchanged /\ nav.outcome # ExchangeDone(TRUE)) => ToAuthCodeError

C24_ErrorWitness ==
    /\ nav.phase = "callback" /\ nav.pc = "answered"
    /\ Truthy(GetParam(nav.search, "error")) /\ Truthy(GetParam(nav.search, "code"))
    /\ ~nav.exchanged /\ ToAuthCodeError

---------------------------------------------------------------------------
(* Properties of the dashboard page (DashSpec) *)

\* the step in which the fetch of the initial load settles
LoadFetchSettles == dash.phase = "mounted" /\ dash.load = "fetching" /\ dash'.load # "fetching"

\* the step in which the initial load ends in its catch block
LoadEndsFailed == dash.phase = "mounted" /\ dash.load # "failed" /\ dash'.load = "failed"

SearchSettles ==
    /\ dash.phase = "mounted"
    /\ \E s \in dash.pending : \A u \in dash'.pending : u.id # s.id

\* the step in which loadInitialRecipes settles
LoadSettles ==
    /\ dash.phase = "mounted"
    /\ dash.load \in {"fetching", "parsing"} /\ dash'.load \in {"loaded", "failed"}

\* the busy flags of the page on show
Searching == dash.phase # "off" /\ dash.searching
Loading == dash.phase # "off" /\ dash.loading
SigningIn == nav.phase = "browsing" /\ nav.isLoading

\* C26: every operation that raises a busy flag lowers it, whatever the
\* outcome: searching is false after a search settles, loading is false
\* after loadInitialRecipes settles, isLoading is false after handleLogin
\* settles, and no flag stays raised for ever.
C26_BusyFlagsLowered ==
    /\ [][SearchSettles => ~dash'.searching]_vars
    /\ [][LoadSettles => ~dash'.loading]_vars
    /\ [][(nav.phase = "browsing" /\ nav'.signIn # nav.signIn /\ nav'.signIn # NoOutcome)
            => ~nav'.isLoading]_vars
    /\ Searching ~> ~Searching
    /\ Loading ~> ~Loading
    /\ SigningIn ~> ~SigningIn

\* the last search started has settled with an empty list after a response
\* that was not OK or a thrown error, and searching is false
C26_Witness ==
    /\ dash.phase = "mounted"
    /\ dash.started > 0 /\ dash.pending = {}
    /\ dash.shown = Shown("failed", dash.started)
    /\ ~dash.searching /\ ~dash.loading

\* a sign-in was rejected and isLoading is false
C26_LoginWitness ==
    /\ nav.phase = "browsing"
    /\ nav.signIn = SignInRejects
    /\ ~nav.isLoading

\* C27: at most one search is under way at a time: while a search request
\* is pending searching is true and no second one is started, so a search
\* result put on show is the result of the search started last.
C27_OneSearchInFlight ==
    /\ [](dash.phase = "mounted"
            => /\ Cardinality(dash.pending) <= 1
               /\ dash.pending # {} => dash.searching)
    /\ [][(dash.phase = "mounted" /\ dash'.shown # dash.shown /\ dash'.shown.by = "search")
            => dash'.shown.id = dash.started]_vars

\* two searches are under way
C27_TwoSearchesInFlight ==
    /\ dash.phase = "mounted"
    /\ Cardinality(dash.pending) = 2

\* the recipes on show are those of the first search although the second one
\* has settled before it
C27_StaleResultShown ==
    /\ dash.phase = "mounted"
    /\ dash.started = 2 /\ dash.pending = {}
    /\ dash.shown = Shown("search", 1)

\* a search is pending and searching is false
C27_PendingNotSearching ==
    /\ dash.phase = "mounted"
    /\ dash.pending # {} /\ ~dash.searching

\* the suggestion requests the step sends
SuggestSent ==
    {s \in dash'.pending \ dash.pending : s.kind = "ingredients" /\ s.stage = "fetching"}

\* C28: with an ingredients input that is empty or holds only whitespace
\* searchRecipesByIngredients sends no request and leaves recipes and
\* searching as they are; and a suggestion request is sent only while
\* backendConnected is true.
C28_BlankInputSendsNothing ==
    /\ [](dash.phase = "mounted"
            => \A ingredients \in InputTexts :
                  LET d == searchRecipesByIngredients(dash, ingredients)
                  IN Trim(ingredients) = <<>>
                        => /\ d.pending = dash.pending
                           /\ d.started = dash.started
                           /\ d.recipes = dash.recipes
                           /\ d.searching = dash.searching)
    /\ [][(dash.phase = "mounted" /\ SuggestSent # {}) => dash.backendConnected]_vars

\* the page shows recipes while a suggestion request is pending: a search
\* with a blank input would find a list and a raised flag to leave alone
C28_Witness ==
    /\ PageShown
    /\ dash.started < MaxSearches
    /\ dash.backendConnected
    /\ dash.recipes # <<>> /\ dash.searching
    /\ \E s \in dash.pending : s.kind = "ingredients"

\* the health check and the initial load have both settled
BothSettled(d) == d.health \in {"ok", "failed"} /\ d.load \in {"loaded", "failed"}

\* the step in which the second of the two settles
LastSettles == dash.phase = "mounted" /\ ~BothSettled(dash) /\ BothSettled(dash')

\* what C29 says besides the outcome of the load
ConnectedFromLast ==
    /\ [][(LastSettles /\ dash'.health # dash.health)
            => (dash'.backendConnected <=> dash'.health = "ok")]_vars
    /\ []((dash.phase = "mounted" /\ BothSettled(dash) /\ dash.backendConnected)
            => (dash.health = "ok" \/ dash.load = "loaded"))

\* C29 as stated: once the health check and the initial load have both
\* settled, backendConnected is the outcome of the one that settled last,
\* true for an OK response and false for a failure.
C29_ConnectedIffOkResponse ==
    /\ ConnectedFromLast
    /\ [][(LastSettles /\ dash'.load # dash.load)
            => (dash'.backendConnected <=> dash.load = "parsing")]_vars

\* C29, amended: the outcome of the load is true when its response was OK
\* and its body could be read, false otherwise.
C29_ConnectedFromLastSettled ==
    /\ ConnectedFromLast
    /\ [][(LastSettles /\ dash'.load # dash.load)
            => (dash'.backendConnected <=> dash'.load = "loaded")]_vars

\* the load succeeded, the health check failed after it, and the page is
\* in offline mode with the loaded recipes on show
C29_Witness ==
    /\ dash.phase = "mounted"
    /\ dash.load = "loaded" /\ dash.health = "failed"
    /\ dash.recipes # <<>> /\ dash.shown.by = "load"
    /\ ~dash.backendConnected

---------------------------------------------------------------------------
(* Properties of concurrent suggestion requests (ConcSpec) *)

C22_MetricsArePerRequest ==
    \A w \in Workers :
        conc.call[w].pc = "done"
            => conc.call[w].metrics = SoloMetrics(graph, conc.call[w].request)

\* C22, second half: whatever the counters hold, a request returns the result
\* it returns when served alone by a service just started.
C22_CountersDoNotChangeResults ==
    \A w \in Workers :
        (conc.call[w].pc = "done" /\ conc.stats # algorithm_stats)
            => conc.call[w].response = SoloResponse(graph, conc.call[w].request)

\* a request has reported more filter evaluations than the corpus has recipes
C22_ForeignOperationsCounted ==
    \E w \in Workers :
        /\ conc.call[w].pc = "done"
        /\ conc.call[w].response # <<>>
        /\ conc.call[w].metrics.greedy_selections > FilterEvaluations(corpus)

---------------------------------------------------------------------------
(* Properties of the gap analysis (GapSpec) *)

\* the target recipe of the last gap analysis
GapTarget == CHOOSE r \in corpus : r.id = query.gap.target_recipe_id

\* the missing ingredients of the last gap analysis that have a substitution
\* among the available ingredients
GapSubstitutable ==
    {m \in recipe_ingredients(GapTarget) \ query.gap.available_ingredients :
        \E e \in Range(substitutions(graph, m, EnrichLimit)) :
            e.ingredient \in query.gap.available_ingredients}

\* the feasibility score the claim states for the last gap analysis
GapExpected ==
    Q(Cardinality(recipe_ingredients(GapTarget) \cap query.gap.available_ingredients)
          + Cardinality(GapSubstitutable),
      Cardinality(recipe_ingredients(GapTarget)))

\* C16: gap analysis returns feasibility_score = (available required
\* ingredients + missing ingredients with an available substitution) / total
\* required ingredients; the score lies in [0,1] and is 1 when every required
\* ingredient is available.
C16_FeasibilityScore ==
    query.gap.asked =>
        /\ query.gap.result.status = "ok"
        /\ query.gap.result.feasibility_score = GapExpected
        /\ QLe(QZero, query.gap.result.feasibility_score)
        /\ QLe(query.gap.result.feasibility_score, QOne)
        /\ (recipe_ingredients(GapTarget) \subseteq query.gap.available_ingredients
               => QEq(query.gap.result.feasibility_score, QOne))

\* the same for target recipes that require at least one ingredient
C16_FeasibilityScoreNonEmpty ==
    (query.gap.asked /\ recipe_ingredients(GapTarget) # {}) => C16_FeasibilityScore

\* a gap analysis counted an available ingredient and a substituted one, and
\* left one missing ingredient without substitution
C16_Witness ==
    /\ query.gap.asked
    /\ query.gap.result.status = "ok"
    /\ GapSubstitutable # {}
    /\ recipe_ingredients(GapTarget) \cap query.gap.available_ingredients # {}
    /\ QLt(query.gap.result.feasibility_score, QOne)

---------------------------------------------------------------------------
(* Properties of CandidateFilter (FilterSpec) *)

\* the greedy metrics of the recipe with the given id in the filtered corpus
AskedMetrics(id) ==
    ScoreRecipe(CHOOSE r \in Range(query.filter.recipes) : r.id = id,
                query.filter.request)

\* other orders of the filtered corpus: every order of a small corpus, the
\* reverse and a rotation of a large one
Rearranged(list) ==
    IF Len(list) <= MaxCorpus + 1 THEN Orders(Range(list))
    ELSE {Reverse(list), Tail(list) \o <<Head(list)>>}

=============================================================================
